---------------------------- MODULE Spec2Model ----------------------------
(***************************************************************************)
(* Model of the Super Simple Template Library (sstl).                      *)
(*                                                                         *)
(* Part 1: ss::SharedT<T> (source/sstlshrp.hpp), the reference counted     *)
(* shared pointer.  A SharedT object (a "handle") holds m_pointer, the     *)
(* address of a heap allocated pointer_t (a "control block") or NULL.  A   *)
(* pointer_t holds refs, data and deleteFun.                               *)
(*                                                                         *)
(* Spec   : one thread calling the public operations, each operation one   *)
(*          atomic action.                                                 *)
(* SpecMT : several threads, each working on its own handles; retain()     *)
(*          and release() are split at every access to refs.               *)
(*                                                                         *)
(* Part 2: ss::FunctorT (source/sstlfunc.hpp), the pair of a host pointer  *)
(* and a trampoline, and ss::EventT (source/sstleven.hpp), a list of       *)
(* functors.                                                               *)
(*                                                                         *)
(* SpecFn : the operations on two functors.                                *)
(* SpecEv : the operations on two events; add() is split at every pass of  *)
(*          its loop.  SpecEvFair: the same, add() keeps running.          *)
(***************************************************************************)
EXTENDS Integers, Sequences, FiniteSets, TLC

(* ------------------------------ bounds -------------------------------- *)
\* number of SharedT objects (named 1..MaxHandles) the program may have at a time
MaxHandles == 3
\* number of pointer_t objects the program may allocate in one run
MaxBlocks == 2
\* raw pointers 1..MaxPtr are the distinct objects handed to the library
MaxPtr == 1
\* number of threads of the multi-threaded specification
NumThreads == 2
\* a pointer value is a pair of 32-bit halves: the high half is 0..MaxHigh,
\* the low half 0..MaxLow; an int given to a comparison is -MaxLow..MaxLow
MaxHigh == 1
MaxLow == 3
\* _Value_t of the properties is an unsigned type of ValueBits bits
ValueBits == 2

(* ----------------------------- constants ------------------------------ *)
\* the null pointer: of pointer_t* (m_pointer) and of class_t* (data)
NULL == 0
\* a null release_t function pointer
NullFn == 0
\* &pointer_t::release, the default release function
DefaultRelease == 1
\* a caller supplied release function
CustomD == 2

Handles == 1..MaxHandles
Blocks == 1..MaxBlocks
Ptrs == 0..MaxPtr
Threads == 1..NumThreads
\* release functions a caller can pass to assign() or to the constructor
CallerFns == {NullFn, CustomD}

\* std::list nodes all delegate lists together may hold
MaxEntries == 3

\* the null pointer of a functor's host and trampoline
NullPtr == "NULL"
\* the objects of class Target the program binds member functions of
Targets == {"A", "B"}
\* the member functions of class Target with the signature of the event
Members == {"m1", "m2"}
\* the EventT objects of the program, all of one signature
Events == {"e1", "e2"}
\* the FunctorT objects of the program
Functors == {"f", "g"}
\* the ss::PropertyT objects of the program, and its ro::PropertyT objects
Props == {"p"}
ROProps == {"r"}
\* the host each property is a member of, and is bound to
Owner == [x \in Props \cup ROProps |-> IF x \in Props THEN "A" ELSE "B"]
\* the number of parameters of the three specializations
Arities == {0, 1, 2}
\* the argument lists the program passes to an event with n parameters
ArgsOf(n) ==
    IF n = 0 THEN {<< >>}
    ELSE IF n = 1 THEN {<<1>>, <<2>>}
    ELSE {<<1, 2>>, <<2, 1>>}

VARIABLES
    live,       \* live[h]: the SharedT object h is constructed and not destroyed
    m_pointer,  \* m_pointer[h]: SharedT::m_pointer of handle h
    blk,        \* blk[b]: the pointer_t at address b: st, refs, data, deleteFun
    nextBlock,  \* the address operator new returns next
    released,   \* released[b]: how often ~pointer_t ran (*deleteFun)(data) for b
    trace,      \* what the last public operation did to memory, in order
    lastOp,     \* the name of the last public operation
    ub,         \* TRUE once the program touched a destroyed pointer_t
    pc,         \* SpecMT: pc[t], where thread t is inside retain()/release()
    reg,        \* SpecMT: reg[t], the value of refs thread t has loaded
    cur,        \* SpecMT: cur[t], the handle thread t is working on
    m_delegates,\* SpecEv: m_delegates[e], EventT::m_delegates of event e
    arity,      \* SpecEv: the number of parameters of the events' signature
    calls,      \* SpecEv: the calls the last trigger() made, in order, or the
                \* delegates the last unbound() or remove() erased
    it,         \* SpecEv: the add() in progress, or the last one if no
                \* operation came after it, and its iterator; SpecRe: the
                \* same for trigger()
    functor,    \* SpecFn: functor[x], m_host and m_call of FunctorT x
    answer,     \* SpecFn, SpecCmp, SpecProp: what the last query returned
    arg,        \* SpecCmp: the int the last comparison was given
    prop,       \* SpecProp: prop[p], m_host, m_get and m_set of PropertyT p
    m_value     \* SpecProp: m_value[t], the value the host object t holds

vars == <<live, m_pointer, blk, nextBlock, released, trace, lastOp, ub,
          pc, reg, cur, m_delegates, arity, calls, it, functor, answer,
          arg, prop, m_value>>

mtvars == <<pc, reg, cur>>

evvars == <<m_delegates, arity, calls, it>>

fnvars == <<functor, answer>>

\* the variables of the properties and of the comparison with an int
prvars == <<arg, prop, m_value>>

\* the variables of SharedT
shvars == <<live, m_pointer, blk, nextBlock, released, trace, ub>>

\* no add() is in progress
NoAdd == [st |-> "idle"]

\* the static function invoker<_Host_t, _Member>, by its template arguments
invoker(class, member) ==
    [class |-> class, member |-> member, fn |-> "invoker"]

\* the static function const_invoker<_Host_t, _Member>
const_invoker(class, member) ==
    [class |-> class, member |-> member, fn |-> "const_invoker"]

\* the null pointer to an invoker function
NullCall == [class |-> NullPtr, member |-> NullPtr, fn |-> NullPtr]

\* FunctorT(): m_host(NULL), m_call(NULL)
FunctorT == [m_host |-> NullPtr, m_call |-> NullCall]

\* the program has built no event and no functor yet
NoEvents ==
    /\ m_delegates = [e \in Events |-> << >>]
    /\ calls = << >>
    /\ it = NoAdd

NoFunctors ==
    /\ functor = [x \in Functors |-> FunctorT]
    /\ answer = FALSE

\* PropertyT(): m_host(NULL), m_get(NULL), m_set(NULL)
PropertyT == [m_host |-> NullPtr, m_get |-> NullCall, m_set |-> NullCall]

\* ro::PropertyT(): m_host(NULL), m_get(NULL)
ROPropertyT == [m_host |-> NullPtr, m_get |-> NullCall]

\* the program has built its properties and bound none yet
NoProperties ==
    /\ arg = 0
    /\ prop = [x \in Props \cup ROProps |->
                  IF x \in Props THEN PropertyT ELSE ROPropertyT]
    /\ m_value = [t \in Targets |-> 0]

\* an address never handed out by operator new
FreeBlock == [st |-> "free", refs |-> 0, data |-> NULL, deleteFun |-> NullFn]

\* the memory of a pointer_t that was given back to the allocator
DeadBlock == [st |-> "deleted", refs |-> 0, data |-> NULL, deleteFun |-> NullFn]

\* one entry of trace: k is what was done, b the pointer_t it was done to,
\* v the value (the new refs, or the class_t pointer), f the function
Ev(k, b, v, f) == [k |-> k, b |-> b, v |-> v, f |-> f]

(***************************************************************************)
(* The memory the operations work on, as one record, so that the member   *)
(* functions are operators from memory to memory.                         *)
(***************************************************************************)
Mem == [live |-> live, m_pointer |-> m_pointer, blk |-> blk,
        nextBlock |-> nextBlock, released |-> released,
        trace |-> << >>, ub |-> ub]

Commit(S, op) ==
    /\ live' = S.live
    /\ m_pointer' = S.m_pointer
    /\ blk' = S.blk
    /\ nextBlock' = S.nextBlock
    /\ released' = S.released
    /\ trace' = S.trace
    /\ ub' = S.ub
    /\ lastOp' = op
    /\ UNCHANGED <<mtvars, evvars, fnvars, prvars>>

\* a read or write through a pointer to a pointer_t that was deleted
Touch(S, b) == [S EXCEPT !.ub = @ \/ S.blk[b].st # "live"]

\* mutant: delete without the test for NULL
pointer_release_no_check(S, pointer) ==
    [S EXCEPT !.trace = Append(@, Ev("free", 0, pointer, 0))]

\* static void pointer_t::release(class_t *pointer)
pointer_release(S, pointer) ==
    IF pointer = NULL THEN S
    ELSE [S EXCEPT !.trace = Append(@, Ev("free", 0, pointer, 0))]

\* (*fn)(data): the default function deletes, a caller's function is only
\* recorded
Invoke(S, b, fn, data) ==
    LET S1 == [S EXCEPT !.released[b] = @ + 1,
                        !.trace = Append(@, Ev("call", b, data, fn))]
    IN IF fn = DefaultRelease THEN pointer_release(S1, data) ELSE S1

\* pointer_t(class_t *ptr): refs(1), data(ptr), deleteFun(&pointer_t::release)
pointer_t_1(ptr) ==
    [st |-> "live", refs |-> 1, data |-> ptr, deleteFun |-> DefaultRelease]

\* mutant: the NULL function pointer is stored as it is
pointer_t_2_keep_null(ptr, funPtr) ==
    [st |-> "live", refs |-> 1, data |-> ptr, deleteFun |-> funPtr]

\* pointer_t(class_t *ptr, release_t funPtr)
pointer_t_2(ptr, funPtr) ==
    [st |-> "live", refs |-> 1, data |-> ptr,
     deleteFun |-> IF funPtr = NullFn THEN DefaultRelease ELSE funPtr]

\* new pointer_t(...): the object is built at address S.nextBlock
New(S, obj) ==
    [S EXCEPT !.blk[S.nextBlock] = obj,
              !.nextBlock = @ + 1,
              !.trace = Append(@, Ev("new", S.nextBlock, obj.data, obj.deleteFun))]

\* delete m_pointer: ~pointer_t() runs (*deleteFun)(data), then the memory
\* is given back
Delete(S, b) ==
    LET S1 == Touch(S, b)
        S2 == Invoke(S1, b, S1.blk[b].deleteFun, S1.blk[b].data)
    IN [S2 EXCEPT !.blk[b] = DeadBlock,
                  !.trace = Append(@, Ev("delete", b, 0, 0))]

(* ------------------------------- SharedT ------------------------------- *)
\* SharedT::data()
data(S, h) ==
    IF S.m_pointer[h] # NULL THEN S.blk[S.m_pointer[h]].data ELSE NULL

\* SharedT::shares()
shares(S, h) ==
    IF S.m_pointer[h] # NULL THEN S.blk[S.m_pointer[h]].refs ELSE 0

\* mutant: the count is not incremented
retain_no_inc(S, h) == S

\* SharedT::retain()
retain(S, h) ==
    LET b == S.m_pointer[h] IN
    IF b = NULL THEN S
    ELSE LET S1 == Touch(S, b)
         IN [S1 EXCEPT !.blk[b].refs = @ + 1,
                       !.trace = Append(@, Ev("inc", b, S1.blk[b].refs + 1, 0))]

\* mutant: the pointer_t is deleted one reference too early
release_early(S, h) ==
    LET b == S.m_pointer[h] IN
    IF b = NULL THEN S
    ELSE LET S1 == Touch(S, b)
             result == S1.blk[b].refs - 1
             S2 == [S1 EXCEPT !.blk[b].refs = result,
                              !.trace = Append(@, Ev("dec", b, result, 0))]
             S3 == IF result <= 1 THEN Delete(S2, b) ELSE S2
         IN [S3 EXCEPT !.m_pointer[h] = NULL]

\* mutant: the pointer_t is never deleted
release_no_delete(S, h) ==
    LET b == S.m_pointer[h] IN
    IF b = NULL THEN S
    ELSE LET S1 == Touch(S, b)
             result == S1.blk[b].refs - 1
         IN [S1 EXCEPT !.blk[b].refs = result,
                       !.trace = Append(@, Ev("dec", b, result, 0)),
                       !.m_pointer[h] = NULL]

\* mutant: m_pointer is cleared only when the pointer_t was deleted
release_keeps_pointer(S, h) ==
    LET b == S.m_pointer[h] IN
    IF b = NULL THEN S
    ELSE LET S1 == Touch(S, b)
             result == S1.blk[b].refs - 1
             S2 == [S1 EXCEPT !.blk[b].refs = result,
                              !.trace = Append(@, Ev("dec", b, result, 0))]
         IN IF result <= 0
            THEN [Delete(S2, b) EXCEPT !.m_pointer[h] = NULL]
            ELSE S2

\* SharedT::release()
release(S, h) ==
    LET b == S.m_pointer[h] IN
    IF b = NULL THEN S
    ELSE LET S1 == Touch(S, b)
             result == S1.blk[b].refs - 1
             S2 == [S1 EXCEPT !.blk[b].refs = result,
                              !.trace = Append(@, Ev("dec", b, result, 0))]
             S3 == IF result <= 0 THEN Delete(S2, b) ELSE S2
         IN [S3 EXCEPT !.m_pointer[h] = NULL]

\* the value SharedT::release() returns: 0 without a pointer_t, else the
\* count after the decrement
release_result(S, h) ==
    IF S.m_pointer[h] = NULL THEN 0 ELSE S.blk[S.m_pointer[h]].refs - 1

\* mutant: the conversion tests the pointer_t instead of the data
operator_bool_attached(S, h) == S.m_pointer[h] # NULL

\* SharedT::operator bool(): return (data() != NULL);
operator_bool(S, h) == data(S, h) # NULL

\* SharedT::operator!(): return (data() == NULL);
operator_not(S, h) == data(S, h) = NULL

\* mutant: no test for the identical pointer_t
assign_no_guard(S, h, other) ==
    LET S1 == release(S, h)
        S2 == [S1 EXCEPT !.m_pointer[h] = S1.m_pointer[other]]
    IN retain(S2, h)

\* mutant: the new pointer_t is retained before the old one is released
assign_retain_first(S, h, other) ==
    IF S.m_pointer[h] = S.m_pointer[other]
    THEN [S EXCEPT !.trace = Append(@, Ev("same", S.m_pointer[h], 0, 0))]
    ELSE LET S1 == retain([S EXCEPT !.m_pointer[h] = S.m_pointer[other]], h)
             S2 == release([S1 EXCEPT !.m_pointer[h] = S.m_pointer[h]], h)
         IN [S2 EXCEPT !.m_pointer[h] = S.m_pointer[other]]

\* SharedT::assign(const SharedT &other)
assign(S, h, other) ==
    IF S.m_pointer[h] = S.m_pointer[other]
    THEN [S EXCEPT !.trace = Append(@, Ev("same", S.m_pointer[h], 0, 0))]
    ELSE LET S1 == release(S, h)
             S2 == [S1 EXCEPT !.m_pointer[h] = S1.m_pointer[other]]
         IN retain(S2, h)

\* mutant: no test for the pointer already held
assign_ptr_no_guard(S, h, ptr, destructor) ==
    LET S1 == release(S, h)
        S2 == New(S1, pointer_t_2(ptr, destructor))
    IN [S2 EXCEPT !.m_pointer[h] = S1.nextBlock]

\* mutant: the handle joins a pointer_t that already owns ptr
assign_ptr_merge(S, h, ptr, destructor) ==
    LET owners == {g \in Handles : S.live[g] /\ S.m_pointer[g] # NULL
                                   /\ data(S, g) = ptr}
    IN IF ptr = data(S, h)
       THEN [S EXCEPT !.trace = Append(@, Ev("same_ptr", S.m_pointer[h], ptr, 0))]
       ELSE IF owners # {}
            THEN LET S1 == release(S, h)
                     g == CHOOSE x \in owners : TRUE
                 IN retain([S1 EXCEPT !.m_pointer[h] = S.m_pointer[g]], h)
            ELSE LET S1 == release(S, h)
                     S2 == New(S1, pointer_t_2(ptr, destructor))
                 IN [S2 EXCEPT !.m_pointer[h] = S1.nextBlock]

\* SharedT::assign(class_t *ptr, void (*destructor)(class_t*))
assign_ptr(S, h, ptr, destructor) ==
    IF ptr = data(S, h)
    THEN [S EXCEPT !.trace = Append(@, Ev("same_ptr", S.m_pointer[h], ptr, 0))]
    ELSE LET S1 == release(S, h)
             S2 == New(S1, pointer_t_2(ptr, destructor))
         IN [S2 EXCEPT !.m_pointer[h] = S1.nextBlock]

\* SharedT(): m_pointer = NULL
ctor_default(S, h) ==
    [S EXCEPT !.live[h] = TRUE, !.m_pointer[h] = NULL]

\* SharedT(const SharedT &other): m_pointer = other.m_pointer; retain();
ctor_copy(S, h, other) ==
    retain([S EXCEPT !.live[h] = TRUE, !.m_pointer[h] = S.m_pointer[other]], h)

\* explicit SharedT(class_t *ptr): m_pointer = new pointer_t(ptr);
ctor_ptr(S, h, ptr) ==
    LET S1 == New([S EXCEPT !.live[h] = TRUE], pointer_t_1(ptr))
    IN [S1 EXCEPT !.m_pointer[h] = S.nextBlock]

\* SharedT(class_t *ptr, void (*destructor)(class_t*)) :
\*     m_pointer(new pointer_t(ptr), destructor) { }
\* The only pointer_t built is `new pointer_t(ptr)`, by the one-argument
\* constructor: destructor is not passed to it.
ctor_ptr_fn(S, h, ptr, destructor) ==
    LET S1 == New([S EXCEPT !.live[h] = TRUE], pointer_t_1(ptr))
    IN [S1 EXCEPT !.m_pointer[h] = S.nextBlock]

\* ~SharedT(): release(); and the object is gone
dtor(S, h) ==
    [release(S, h) EXCEPT !.live[h] = FALSE]

\* operator=(class_t *ptr): return assign(ptr, &pointer_t::release);
op_assign_ptr(S, h, ptr) == assign_ptr(S, h, ptr, DefaultRelease)

(* ------------------------------ operations ----------------------------- *)
\* the program has not run into a destroyed pointer_t
Running == ~ub

\* a constructor runs on an object that does not exist yet
CanConstruct(h) == Running /\ ~live[h]

\* a member function runs on an object that exists
CanCall(h) == Running /\ live[h]

\* operator new has n more pointer_t to give
CanAlloc(n) == nextBlock + n <= MaxBlocks + 1

\* how many pointer_t objects assign(ptr, ...) allocates
Allocs(h, ptr) == IF ptr = data(Mem, h) THEN 0 ELSE 1

DefaultCtor(h) ==
    /\ CanConstruct(h)
    /\ Commit(ctor_default(Mem, h), "ctor")

CopyCtor(h, other) ==
    /\ CanConstruct(h) /\ live[other]
    /\ Commit(ctor_copy(Mem, h, other), "copy")

PtrCtor(h, ptr) ==
    /\ CanConstruct(h) /\ CanAlloc(1)
    /\ Commit(ctor_ptr(Mem, h, ptr), "ctor_ptr")

PtrFnCtor(h, ptr, destructor) ==
    /\ CanConstruct(h) /\ CanAlloc(1)
    /\ Commit(ctor_ptr_fn(Mem, h, ptr, destructor), "ctor_ptr_fn")

Dtor(h) ==
    /\ CanCall(h)
    /\ Commit(dtor(Mem, h), "dtor")

\* operator=(const SharedT &other): return assign(other);
AssignHandle(h, other) ==
    /\ CanCall(h) /\ live[other]
    /\ Commit(assign(Mem, h, other), "assign")

AssignPtr(h, ptr, destructor) ==
    /\ CanCall(h) /\ CanAlloc(Allocs(h, ptr))
    /\ Commit(assign_ptr(Mem, h, ptr, destructor), "assign_ptr")

OpAssignPtr(h, ptr) ==
    /\ CanCall(h) /\ CanAlloc(Allocs(h, ptr))
    /\ Commit(op_assign_ptr(Mem, h, ptr), "op_assign_ptr")

\* no SharedT object has been constructed
NoHandles ==
    /\ live = [h \in Handles |-> FALSE]
    /\ m_pointer = [h \in Handles |-> NULL]
    /\ blk = [b \in Blocks |-> FreeBlock]
    /\ nextBlock = 1
    /\ released = [b \in Blocks |-> 0]
    /\ trace = << >>
    /\ ub = FALSE
    /\ pc = [t \in Threads |-> "idle"]
    /\ reg = [t \in Threads |-> 0]
    /\ cur = [t \in Threads |-> 0]

Init ==
    /\ NoHandles
    /\ lastOp = "init"
    /\ NoEvents /\ arity = 0 /\ NoFunctors /\ NoProperties

Next ==
    \/ \E h \in Handles : DefaultCtor(h)
    \/ \E h \in Handles, o \in Handles : CopyCtor(h, o)
    \/ \E h \in Handles, p \in Ptrs : PtrCtor(h, p)
    \/ \E h \in Handles, p \in Ptrs, fn \in {CustomD} : PtrFnCtor(h, p, fn)
    \/ \E h \in Handles : Dtor(h)
    \/ \E h \in Handles, o \in Handles : AssignHandle(h, o)
    \/ \E h \in Handles, p \in Ptrs, fn \in CallerFns : AssignPtr(h, p, fn)
    \/ \E h \in Handles, p \in Ptrs : OpAssignPtr(h, p)

Spec == Init /\ [][Next]_vars


(***************************************************************************)
(* Several threads.  Thread t only touches the handles it owns; the        *)
(* pointer_t is shared.  refs is a `volatile intptr_t`: ++refs and --refs  *)
(* are a load, an add and a store, and the value of the expression --refs  *)
(* is the lvalue refs, which the initialisation of result reads again.     *)
(***************************************************************************)
owner(h) == ((h - 1) % NumThreads) + 1

Idle(t) == pc[t] = "idle"

\* the handle and the pointer_t thread t is working on
CurBlock(t) == m_pointer[cur[t]]

\* SharedT(const SharedT &other): m_pointer = other.m_pointer; retain();
\* up to `if (!m_pointer) return 0;`
MTCopyCtor(t, h, other) ==
    /\ Running /\ Idle(t)
    /\ owner(h) = t /\ owner(other) = t
    /\ ~live[h] /\ live[other]
    /\ live' = [live EXCEPT ![h] = TRUE]
    /\ m_pointer' = [m_pointer EXCEPT ![h] = m_pointer[other]]
    /\ IF m_pointer[other] = NULL
       THEN UNCHANGED <<pc, cur>>
       ELSE /\ pc' = [pc EXCEPT ![t] = "retain_load"]
            /\ cur' = [cur EXCEPT ![t] = h]
    /\ UNCHANGED <<evvars, fnvars, prvars, blk, nextBlock, released, trace, lastOp, ub, reg>>

\* ++m_pointer->refs: the load
MTRetainLoad(t) ==
    /\ Running /\ pc[t] = "retain_load"
    /\ reg' = [reg EXCEPT ![t] = blk[CurBlock(t)].refs]
    /\ ub' = (ub \/ blk[CurBlock(t)].st # "live")
    /\ pc' = [pc EXCEPT ![t] = "retain_store"]
    /\ UNCHANGED <<evvars, fnvars, prvars, live, m_pointer, blk, nextBlock, released, trace, lastOp, cur>>

\* ++m_pointer->refs: the store
MTRetainStore(t) ==
    /\ Running /\ pc[t] = "retain_store"
    /\ IF blk[CurBlock(t)].st = "live"
       THEN /\ blk' = [blk EXCEPT ![CurBlock(t)].refs = reg[t] + 1]
            /\ UNCHANGED ub
       ELSE /\ ub' = TRUE
            /\ UNCHANGED blk
    /\ pc' = [pc EXCEPT ![t] = "idle"]
    /\ UNCHANGED <<evvars, fnvars, prvars, live, m_pointer, nextBlock, released, trace, lastOp, reg, cur>>

\* ~SharedT(): release(); up to `if (!m_pointer) return 0;`
MTDtor(t, h) ==
    /\ Running /\ Idle(t)
    /\ owner(h) = t /\ live[h]
    /\ IF m_pointer[h] = NULL
       THEN /\ live' = [live EXCEPT ![h] = FALSE]
            /\ UNCHANGED <<pc, cur>>
       ELSE /\ pc' = [pc EXCEPT ![t] = "release_load"]
            /\ cur' = [cur EXCEPT ![t] = h]
            /\ UNCHANGED live
    /\ UNCHANGED <<evvars, fnvars, prvars, m_pointer, blk, nextBlock, released, trace, lastOp, ub, reg>>

\* --m_pointer->refs: the load
MTReleaseLoad(t) ==
    /\ Running /\ pc[t] = "release_load"
    /\ reg' = [reg EXCEPT ![t] = blk[CurBlock(t)].refs]
    /\ ub' = (ub \/ blk[CurBlock(t)].st # "live")
    /\ pc' = [pc EXCEPT ![t] = "release_store"]
    /\ UNCHANGED <<evvars, fnvars, prvars, live, m_pointer, blk, nextBlock, released, trace, lastOp, cur>>

\* --m_pointer->refs: the store; reg keeps the value stored
MTReleaseStore(t) ==
    /\ Running /\ pc[t] = "release_store"
    /\ IF blk[CurBlock(t)].st = "live"
       THEN /\ blk' = [blk EXCEPT ![CurBlock(t)].refs = reg[t] - 1]
            /\ UNCHANGED ub
       ELSE /\ ub' = TRUE
            /\ UNCHANGED blk
    /\ reg' = [reg EXCEPT ![t] = reg[t] - 1]
    /\ pc' = [pc EXCEPT ![t] = "release_result"]
    /\ UNCHANGED <<evvars, fnvars, prvars, live, m_pointer, nextBlock, released, trace, lastOp, cur>>

\* intptr_t result = --m_pointer->refs;  (the value stored, or refs read anew)
\* if (result <= 0) { delete m_pointer; }  m_pointer = NULL;  and the handle
\* is gone
MTReleaseResult(t) ==
    /\ Running /\ pc[t] = "release_result"
    /\ \E result \in {reg[t], blk[CurBlock(t)].refs} :
          LET S1 == IF result <= 0 THEN Delete(Mem, CurBlock(t)) ELSE Mem
          IN /\ blk' = S1.blk
             /\ released' = S1.released
             /\ ub' = S1.ub
    /\ m_pointer' = [m_pointer EXCEPT ![cur[t]] = NULL]
    /\ live' = [live EXCEPT ![cur[t]] = FALSE]
    /\ pc' = [pc EXCEPT ![t] = "idle"]
    /\ UNCHANGED <<evvars, fnvars, prvars, nextBlock, trace, lastOp, reg, cur>>

\* the main thread ran `SharedT a(new T);`, copied it once for every other
\* thread and started the threads: thread t owns handle t
InitMT ==
    /\ live = [h \in Handles |-> h <= NumThreads]
    /\ m_pointer = [h \in Handles |-> IF h <= NumThreads THEN 1 ELSE NULL]
    /\ blk = [b \in Blocks |-> IF b = 1
                               THEN [pointer_t_1(1) EXCEPT !.refs = NumThreads]
                               ELSE FreeBlock]
    /\ nextBlock = 2
    /\ released = [b \in Blocks |-> 0]
    /\ trace = << >>
    /\ lastOp = "init"
    /\ ub = FALSE
    /\ pc = [t \in Threads |-> "idle"]
    /\ reg = [t \in Threads |-> 0]
    /\ cur = [t \in Threads |-> 0]
    /\ NoEvents /\ arity = 0 /\ NoFunctors /\ NoProperties

NextMT ==
    \/ \E t \in Threads, h \in Handles, o \in Handles : MTCopyCtor(t, h, o)
    \/ \E t \in Threads : MTRetainLoad(t)
    \/ \E t \in Threads : MTRetainStore(t)
    \/ \E t \in Threads, h \in Handles : MTDtor(t, h)
    \/ \E t \in Threads : MTReleaseLoad(t)
    \/ \E t \in Threads : MTReleaseStore(t)
    \/ \E t \in Threads : MTReleaseResult(t)

SpecMT == InitMT /\ [][NextMT]_vars

(***************************************************************************)
(* ss::FunctorT (sstlfunc.hpp).  A functor is the pair m_host, m_call.    *)
(* The three specializations differ only in the parameters they pass on.   *)
(***************************************************************************)
\* the member functions of class Target that are const
ConstMembers == {"c1"}

\* the host pointers the program binds a functor of Target to
HostPtrs == Targets \cup {NullPtr}

\* static FunctorT from<_Host_t, _Method>(_Host_t *host)
functor_from(class, member, host) ==
    [m_host |-> host, m_call |-> invoker(class, member)]

\* static FunctorT from<_Host_t, _Method>(_Host_t const *host)
functor_from_const(class, member, host) ==
    [m_host |-> host, m_call |-> const_invoker(class, member)]

\* void bind<_Host_t, _Method>(_Host_t *host)
functor_bind(f, class, member, host) ==
    [f EXCEPT !.m_host = host, !.m_call = invoker(class, member)]

\* void bind<_Host_t, _Method>(_Host_t const *host)
functor_bind_const(f, class, member, host) ==
    [f EXCEPT !.m_host = host, !.m_call = const_invoker(class, member)]

\* bool isHost(void *ptr) const
isHost(f, ptr) == f.m_host = ptr

\* mutant: only the hosts are compared
functor_eq_host_only(f, other) == f.m_host = other.m_host

\* bool operator ==(const FunctorT &other) const
functor_eq(f, other) ==
    (f.m_host = other.m_host) /\ (f.m_call = other.m_call)

\* mutant: only the trampoline is tested
valid_call_only(f) == f.m_call # NullCall

\* bool valid() const
valid(f) == (f.m_host # NullPtr) /\ (f.m_call # NullCall)

\* operator bool() const: m_host && m_call
functor_bool(f) == ~(f.m_host = NullPtr) /\ ~(f.m_call = NullCall)

\* bool operator !() const
functor_not(f) == (f.m_host = NullPtr) \/ (f.m_call = NullCall)

\* _Return_t exec(args) const: (*m_call)(m_host, args), whatever m_call and
\* m_host are.  A call through a null m_call is undefined; with m_call set,
\* the invoker is entered and calls the member through m_host, which is
\* undefined when m_host is null.
functor_exec(f, args) ==
    IF f.m_call = NullCall
    THEN [log |-> << >>, ub |-> TRUE]
    ELSE [log |-> <<[f |-> f, args |-> args, depth |-> 0]>>,
          ub |-> f.m_host = NullPtr]

\* _Return_t operator ()(args) const
functor_call(f, args) == functor_exec(f, args)

SetFunctor(x, f, op) ==
    /\ ~ub
    /\ functor' = [functor EXCEPT ![x] = f]
    /\ lastOp' = op
    /\ UNCHANGED <<answer, shvars, mtvars, evvars, prvars>>

\* x = FunctorT()
FnCtor(x) == SetFunctor(x, FunctorT, "functor")

\* x = FunctorT::from<Target, m>(host)
FnFrom(x, m, host) ==
    SetFunctor(x, functor_from("Target", m, host), "from")

\* x = FunctorT::from<Target, m>(host), m a const member function
FnFromConst(x, m, host) ==
    SetFunctor(x, functor_from_const("Target", m, host), "from_const")

\* x.bind<Target, m>(host)
FnBind(x, m, host) ==
    SetFunctor(x, functor_bind(functor[x], "Target", m, host), "bind")

\* x.bind<Target, m>(host), m a const member function
FnBindConst(x, m, host) ==
    SetFunctor(x, functor_bind_const(functor[x], "Target", m, host), "bind_const")

\* x == y
FnEquals(x, y) ==
    /\ ~ub
    /\ answer' = functor_eq(functor[x], functor[y])
    /\ lastOp' = "eq"
    /\ UNCHANGED <<functor, shvars, mtvars, evvars, prvars>>

Query(r, op) ==
    /\ ~ub
    /\ answer' = r
    /\ lastOp' = op
    /\ UNCHANGED <<functor, shvars, mtvars, evvars, prvars>>

\* x.valid()
FnValid(x) == Query(valid(functor[x]), "valid")

\* bool(x)
FnBool(x) == Query(functor_bool(functor[x]), "bool")

\* !x
FnNot(x) == Query(functor_not(functor[x]), "not")

Run(r, op) ==
    /\ ~ub
    /\ calls' = r.log
    /\ ub' = r.ub
    /\ lastOp' = op
    /\ UNCHANGED <<live, m_pointer, blk, nextBlock, released, trace, mtvars,
                   m_delegates, arity, it, fnvars, prvars>>

\* x.exec(args)
FnExec(x, args) == Run(functor_exec(functor[x], args), "exec")

\* x(args)
FnCall(x, args) == Run(functor_call(functor[x], args), "call")

InitFn ==
    /\ NoHandles
    /\ lastOp = "init"
    /\ NoEvents /\ arity = 0 /\ NoFunctors /\ NoProperties

NextFn ==
    \/ \E x \in Functors : FnCtor(x)
    \/ \E x \in Functors, m \in Members, h \in HostPtrs : FnFrom(x, m, h)
    \/ \E x \in Functors, m \in ConstMembers, h \in HostPtrs : FnFromConst(x, m, h)
    \/ \E x \in Functors, m \in Members, h \in HostPtrs : FnBind(x, m, h)
    \/ \E x \in Functors, m \in ConstMembers, h \in HostPtrs : FnBindConst(x, m, h)
    \/ \E x \in Functors, y \in Functors : FnEquals(x, y)
    \/ \E x \in Functors : FnValid(x)
    \/ \E x \in Functors : FnBool(x)
    \/ \E x \in Functors : FnNot(x)
    \/ \E x \in Functors, args \in ArgsOf(2) : FnExec(x, args)
    \/ \E x \in Functors, args \in ArgsOf(2) : FnCall(x, args)

SpecFn == InitFn /\ [][NextFn]_vars

(***************************************************************************)
(* ss::EventT (sstleven.hpp).  m_delegates is a std::list<Delegate>,      *)
(* here a sequence; an iterator is a position in it, Len + 1 is end().     *)
(* The operators work on D, the m_delegates of all events.  The three      *)
(* specializations have the same code but for the parameters of trigger.   *)
(***************************************************************************)
\* the delegates the program passes to operator<<, add and remove
Delegates ==
    {functor_from("Target", m, t) : m \in Members, t \in Targets}
        \cup {functor_from("EventT", "trigger", e) : e \in Events}

\* size_t count() const
count(D, e) == Len(D[e])

\* m_delegates.erase(it): the element at it is removed, the iterator
\* returned is the position of the one that followed it
erase(L, i) == SubSeq(L, 1, i - 1) \o SubSeq(L, i + 1, Len(L))

\* mutant: a delegate that is already in the list is not appended again
bind_unique(D, e, class, member, target) ==
    LET delegate == functor_bind(FunctorT, class, member, target)
    IN IF \E i \in DOMAIN D[e] : D[e][i] = delegate
       THEN D
       ELSE [D EXCEPT ![e] = Append(@, delegate)]

\* void bind<_Target_t, _Method>(_Target_t *target)
bind(D, e, class, member, target) ==
    LET delegate == functor_bind(FunctorT, class, member, target)
    IN [D EXCEPT ![e] = Append(@, delegate)]

\* mutant: an event is not linked to itself
link_checked(D, e, e2) ==
    IF e2 = e THEN D ELSE bind(D, e, "EventT", "trigger", e2)

\* void link(EventT *e2): bind<EventT, &EventT::trigger>(e2)
link(D, e, e2) == bind(D, e, "EventT", "trigger", e2)

\* EventT& operator <<(const Delegate &delegate)
shl(D, e, delegate) == [D EXCEPT ![e] = Append(@, delegate)]

\* the loop of unbound(), from iterator i on
RECURSIVE unbound_from(_, _, _)
unbound_from(L, i, target) ==
    IF i > Len(L) THEN L
    ELSE IF isHost(L[i], target)
         THEN unbound_from(erase(L, i), i, target)
         ELSE unbound_from(L, i + 1, target)

\* mutant: the loop ends after the first delegate it erased
RECURSIVE unbound_first_from(_, _, _)
unbound_first_from(L, i, target) ==
    IF i > Len(L) THEN L
    ELSE IF isHost(L[i], target)
         THEN erase(L, i)
         ELSE unbound_first_from(L, i + 1, target)

\* mutant: unbound() stops at the first delegate of the host
unbound_first(D, e, target) ==
    [D EXCEPT ![e] = unbound_first_from(@, 1, target)]

\* void unbound(_Target_t *target)
unbound(D, e, target) == [D EXCEPT ![e] = unbound_from(@, 1, target)]

\* the loop of remove(), from iterator i on
RECURSIVE remove_from(_, _, _)
remove_from(L, i, callback) ==
    IF i > Len(L) THEN L
    ELSE IF functor_eq(L[i], callback)
         THEN remove_from(erase(L, i), i, callback)
         ELSE remove_from(L, i + 1, callback)

\* mutant: remove() erases every delegate of the callback's host
remove_by_host(D, e, callback) ==
    [D EXCEPT ![e] = unbound_from(@, 1, callback.m_host)]

\* void remove(const Delegate &callback)
remove(D, e, callback) == [D EXCEPT ![e] = remove_from(@, 1, callback)]

\* one entry of calls: exec() of delegate f with parameters args, made by a
\* trigger() that is nested depth deep in other trigger() calls
Exec(f, args, depth) == [f |-> f, args |-> args, depth |-> depth]

\* FunctorT::exec(args) of delegate f, and the loop of trigger() on event e
\* from iterator i on.  They give the calls made and whether they return.
\* The delegate of a link calls trigger() of the event it points to; a
\* member function of a Target does not touch the events.  A chain of
\* nested trigger() calls as long as there are events has met one event
\* twice: that recursion has no end.
RECURSIVE exec(_, _, _, _)
RECURSIVE trigger_from(_, _, _, _, _)
exec(D, f, args, depth) ==
    IF f.m_call.member = "trigger"
    THEN IF depth + 1 >= Cardinality(Events)
         THEN [log |-> <<Exec(f, args, depth)>>, returns |-> FALSE]
         ELSE LET r == trigger_from(D, f.m_host, 1, args, depth + 1)
              IN [log |-> <<Exec(f, args, depth)>> \o r.log,
                  returns |-> r.returns]
    ELSE [log |-> <<Exec(f, args, depth)>>, returns |-> TRUE]

trigger_from(D, e, i, args, depth) ==
    IF i > Len(D[e]) THEN [log |-> << >>, returns |-> TRUE]
    ELSE LET r == exec(D, D[e][i], args, depth)
         IN IF ~r.returns THEN r
            ELSE LET rest == trigger_from(D, e, i + 1, args, depth)
                 IN [log |-> r.log \o rest.log, returns |-> rest.returns]

\* mutant: a delegate equal to the one just called is skipped
RECURSIVE trigger_skip_from(_, _, _, _)
trigger_skip_from(D, e, i, args) ==
    IF i > Len(D[e]) THEN [log |-> << >>, returns |-> TRUE]
    ELSE IF i > 1 /\ D[e][i] = D[e][i - 1]
         THEN trigger_skip_from(D, e, i + 1, args)
         ELSE LET r == exec(D, D[e][i], args, 0)
              IN IF ~r.returns THEN r
                 ELSE LET rest == trigger_skip_from(D, e, i + 1, args)
                      IN [log |-> r.log \o rest.log, returns |-> rest.returns]

\* mutant: trigger() calls a repeated delegate once
trigger_skip(D, e, args) == trigger_skip_from(D, e, 1, args)

\* void trigger(args)
trigger(D, e, args) == trigger_from(D, e, 1, args, 0)

\* void operator ()(args): this->trigger(args)
op_call(D, e, args) == trigger(D, e, args)

\* one pass of the loop of add(): the test of the while, then its body.
\* The body has no ++it: when the delegate at it is not the callback the
\* iterator stays where it is, and a.again tells one pass from the next.
add_step(D, a) ==
    IF a.it > Len(D[a.e])
    THEN [D |-> [D EXCEPT ![a.e] = Append(@, a.callback)],
          it |-> [a EXCEPT !.st = "done"]]
    ELSE IF functor_eq(D[a.e][a.it], a.callback)
         THEN [D |-> D, it |-> [a EXCEPT !.st = "done"]]
         ELSE [D |-> D, it |-> [a EXCEPT !.again = ~@]]

\* the delegates of L that an erasing loop which left K took out, in order
RECURSIVE Erased(_, _)
Erased(L, K) ==
    IF L = << >> THEN << >>
    ELSE IF K # << >> /\ Head(L) = Head(K)
         THEN Erased(Tail(L), Tail(K))
         ELSE <<Head(L)>> \o Erased(Tail(L), K)

(* ------------------------------ operations ----------------------------- *)
\* all std::list nodes in use
RECURSIVE EntriesOf(_)
EntriesOf(S) ==
    IF S = {} THEN 0
    ELSE LET e == CHOOSE x \in S : TRUE
         IN Len(m_delegates[e]) + EntriesOf(S \ {e})

Entries == EntriesOf(Events)

\* the program is running: it has not ended in a recursion without end and
\* is not inside add()
EvRunning == lastOp # "overflow" /\ it.st # "loop"

\* push_back has a node to give
CanAppend == Entries < MaxEntries

\* the event operations leave SharedT and the functors alone
SetEvents(D, op) ==
    /\ m_delegates' = D
    /\ lastOp' = op
    /\ calls' = << >>
    /\ it' = NoAdd
    /\ UNCHANGED <<arity, shvars, mtvars, fnvars, prvars>>

\* the same for the operations that erase
EraseEvents(D, e, op) ==
    /\ m_delegates' = D
    /\ lastOp' = op
    /\ calls' = Erased(m_delegates[e], D[e])
    /\ it' = NoAdd
    /\ UNCHANGED <<arity, shvars, mtvars, fnvars, prvars>>

EvBind(e, m, target) ==
    /\ EvRunning /\ CanAppend
    /\ SetEvents(bind(m_delegates, e, "Target", m, target), "bind")

EvLink(e, e2) ==
    /\ EvRunning /\ CanAppend
    /\ SetEvents(link(m_delegates, e, e2), "link")

EvShl(e, delegate) ==
    /\ EvRunning /\ CanAppend
    /\ SetEvents(shl(m_delegates, e, delegate), "shl")

EvUnbound(e, target) ==
    /\ EvRunning
    /\ EraseEvents(unbound(m_delegates, e, target), e, "unbound")

EvRemove(e, callback) ==
    /\ EvRunning
    /\ EraseEvents(remove(m_delegates, e, callback), e, "remove")

\* trigger(args): all of the dispatch; a dispatch that does not return ends
\* the program
DoTrigger(r, op) ==
    /\ calls' = r.log
    /\ lastOp' = IF r.returns THEN op ELSE "overflow"
    /\ it' = NoAdd
    /\ UNCHANGED <<m_delegates, arity, shvars, mtvars, fnvars, prvars>>

EvTrigger(e, args) ==
    /\ EvRunning
    /\ DoTrigger(trigger(m_delegates, e, args), "trigger")

EvOpCall(e, args) ==
    /\ EvRunning
    /\ DoTrigger(op_call(m_delegates, e, args), "op_call")

\* add(callback) is called: it = m_delegates.begin()
EvAdd(e, callback) ==
    /\ EvRunning /\ CanAppend
    /\ it' = [st |-> "loop", e |-> e, callback |-> callback, it |-> 1,
              again |-> FALSE, before |-> m_delegates[e]]
    /\ lastOp' = "add_call"
    /\ calls' = << >>
    /\ UNCHANGED <<m_delegates, arity, shvars, mtvars, fnvars, prvars>>

\* add() goes once round its loop, or leaves it
EvAddLoop ==
    /\ it.st = "loop"
    /\ LET r == add_step(m_delegates, it)
       IN /\ m_delegates' = r.D
          /\ it' = r.it
          /\ lastOp' = IF r.it.st = "done" THEN "add" ELSE lastOp
    /\ UNCHANGED <<arity, calls, shvars, mtvars, fnvars, prvars>>

\* the program was built with one of the three specializations
InitEv ==
    /\ NoHandles
    /\ lastOp = "init"
    /\ NoEvents /\ arity \in Arities /\ NoFunctors /\ NoProperties

NextEv ==
    \/ \E e \in Events, m \in Members, t \in Targets : EvBind(e, m, t)
    \/ \E e \in Events, e2 \in Events : EvLink(e, e2)
    \/ \E e \in Events, d \in Delegates : EvShl(e, d)
    \/ \E e \in Events, p \in Targets \cup Events : EvUnbound(e, p)
    \/ \E e \in Events, d \in Delegates : EvRemove(e, d)
    \/ \E e \in Events, args \in ArgsOf(arity) : EvTrigger(e, args)
    \/ \E e \in Events, args \in ArgsOf(arity) : EvOpCall(e, args)
    \/ \E e \in Events, d \in Delegates : EvAdd(e, d)
    \/ EvAddLoop

SpecEv == InitEv /\ [][NextEv]_vars

\* add() is run whenever it can take a step
SpecEvFair == SpecEv /\ WF_vars(EvAddLoop)


(***************************************************************************)
(* Part 3: the comparison of a SharedT with an int (sstlshrp.hpp 388-432). *)
(* SpecCmp: one handle, built from a pointer drawn from Objects or by the  *)
(* default constructor, is compared with the ints of Ints.                 *)
(***************************************************************************)
\* the objects a handle may point to, 0 the null pointer
Objects == 0 .. ((MaxHigh + 1) * (MaxLow + 1) - 1)

\* the ints the program compares a handle with
Ints == (0 - MaxLow) .. MaxLow

\* the value of the pointer to object p: hi the bits above bit 31, lo the
\* 32 bits below; the null pointer is all zero
Address(p) == [hi |-> p \div (MaxLow + 1), lo |-> p % (MaxLow + 1)]

\* (int)pointer: where pointers are wider than int the low 32 bits are kept
to_int(a) == a.lo

\* bool operator ==(const ss::SharedT<T> &one, int ptr)
op_eq_int(S, h, ptr) == ptr = to_int(Address(data(S, h)))

\* bool operator !=(const ss::SharedT<T> &one, int ptr)
op_ne_int(S, h, ptr) == ptr # to_int(Address(data(S, h)))

Compare(h, i, r, op) ==
    /\ live[h]
    /\ answer' = r
    /\ arg' = i
    /\ lastOp' = op
    /\ UNCHANGED <<shvars, mtvars, evvars, functor, prop, m_value>>

\* h == i
CmpEq(h, i) == Compare(h, i, op_eq_int(Mem, h, i), "eq_int")

\* h != i
CmpNe(h, i) == Compare(h, i, op_ne_int(Mem, h, i), "ne_int")

\* SharedT<T> h or SharedT<T> h(p), p any of Objects
InitCmp ==
    /\ \E attached \in BOOLEAN, p \in Objects :
          /\ attached \/ p = NULL
          /\ live = [h \in Handles |-> h = 1]
          /\ m_pointer = [h \in Handles |-> IF h = 1 /\ attached THEN 1 ELSE NULL]
          /\ blk = [b \in Blocks |-> IF b = 1 /\ attached
                                     THEN pointer_t_1(p) ELSE FreeBlock]
          /\ nextBlock = IF attached THEN 2 ELSE 1
    /\ released = [b \in Blocks |-> 0]
    /\ trace = << >>
    /\ ub = FALSE
    /\ pc = [t \in Threads |-> "idle"]
    /\ reg = [t \in Threads |-> 0]
    /\ cur = [t \in Threads |-> 0]
    /\ lastOp = "init"
    /\ NoEvents /\ arity = 0 /\ NoFunctors /\ NoProperties

NextCmp ==
    \/ \E h \in Handles, i \in Ints : CmpEq(h, i)
    \/ \E h \in Handles, i \in Ints : CmpNe(h, i)

SpecCmp == InitCmp /\ [][NextCmp]_vars


(***************************************************************************)
(* Part 4: trigger() with delegates that change the event that is calling  *)
(* them (sstleven.hpp 159-166).  SpecRe: trigger() is split at the call of *)
(* the delegate and at ++it; the member functions of the Targets call      *)
(* unbound(), remove() or bind() of the event.                             *)
(***************************************************************************)
\* the member functions of a Target: m1 leaves the event alone, unbind_self
\* calls unbound(this), remove_self calls remove() with its own delegate,
\* bind_m1 calls bind<Target, &Target::m1>(this), rebind binds itself again
ReMembers == {"m1", "unbind_self", "remove_self", "bind_m1", "rebind"}

\* the member functions that call bind()
Binders == {"bind_m1", "rebind"}

\* what the member function of delegate d does to the list of event e
body(D, e, d) ==
    CASE d.m_call.member = "unbind_self" -> unbound(D, e, d.m_host)
      [] d.m_call.member = "remove_self" -> remove(D, e, d)
      [] d.m_call.member = "bind_m1" -> bind(D, e, "Target", "m1", d.m_host)
      [] d.m_call.member = "rebind" -> bind(D, e, "Target", "rebind", d.m_host)
      [] OTHER -> D

\* trigger(args) is entered: it = m_delegates.begin()
begin(e, args) ==
    [st |-> "trigger", e |-> e, args |-> args, it |-> 1, at |-> "test",
     erased |-> FALSE]

\* mutant: the loop ends before the last entry
at_end_short(D, a) == a.it >= Len(D[a.e])

\* it == m_delegates.end(), with end() as it is now
at_end(D, a) == a.it > Len(D[a.e])

\* (*it).exec(args): the delegate at it runs.  unbound() and remove() erase
\* every entry that matches, so the node at it is erased exactly when no
\* entry equal to it is left; bind() appends and moves no node.
call_step(D, a) ==
    LET d == D[a.e][a.it]
        D2 == body(D, a.e, d)
    IN [D |-> D2,
        call |-> Exec(d, a.args, 0),
        it |-> [a EXCEPT !.at = "advance",
                         !.erased = ~(\E i \in DOMAIN D2[a.e] : D2[a.e][i] = d)]]

\* mutant: the loop goes on from the entry that followed the erased one
advance_checked(a) ==
    IF a.erased
    THEN [it |-> [a EXCEPT !.at = "test", !.erased = FALSE], ub |-> FALSE]
    ELSE [it |-> [a EXCEPT !.it = @ + 1, !.at = "test"], ub |-> FALSE]

\* ++it: on the node of an erased entry it reads a freed node
advance(a) ==
    IF a.erased
    THEN [it |-> a, ub |-> TRUE]
    ELSE [it |-> [a EXCEPT !.it = @ + 1, !.at = "test"], ub |-> FALSE]

ReIdle == ~ub /\ it.st \notin {"trigger", "loop"}

InDispatch(at) == ~ub /\ it.st = "trigger" /\ it.at = at

\* e.bind<Target, m>(target), outside of trigger()
ReBind(e, m, target) ==
    /\ ReIdle /\ CanAppend
    /\ SetEvents(bind(m_delegates, e, "Target", m, target), "bind")

\* e.trigger(args) is called
ReTrigger(e, args) ==
    /\ ReIdle
    /\ it' = begin(e, args)
    /\ calls' = << >>
    /\ lastOp' = "trigger_call"
    /\ UNCHANGED <<m_delegates, arity, shvars, mtvars, fnvars, prvars>>

\* the while finds it == end(): trigger() returns
ReReturn ==
    /\ InDispatch("test")
    /\ at_end(m_delegates, it)
    /\ it' = [it EXCEPT !.st = "done"]
    /\ lastOp' = "trigger"
    /\ UNCHANGED <<m_delegates, arity, calls, shvars, mtvars, fnvars, prvars>>

\* the while finds it != end() and calls the delegate at it
ReExec ==
    /\ InDispatch("test")
    /\ ~at_end(m_delegates, it)
    /\ m_delegates[it.e][it.it].m_call.member \in Binders => CanAppend
    /\ LET r == call_step(m_delegates, it)
       IN /\ m_delegates' = r.D
          /\ calls' = Append(calls, r.call)
          /\ it' = r.it
    /\ UNCHANGED <<arity, lastOp, shvars, mtvars, fnvars, prvars>>

\* ++it
ReAdvance ==
    /\ InDispatch("advance")
    /\ LET r == advance(it)
       IN it' = r.it /\ ub' = r.ub
    /\ UNCHANGED <<live, m_pointer, blk, nextBlock, released, trace, lastOp,
                   m_delegates, arity, calls, mtvars, fnvars, prvars>>

InitRe ==
    /\ NoHandles
    /\ lastOp = "init"
    /\ NoEvents /\ arity \in Arities /\ NoFunctors /\ NoProperties

NextRe ==
    \/ \E e \in Events, m \in ReMembers, t \in Targets : ReBind(e, m, t)
    \/ \E e \in Events, args \in ArgsOf(arity) : ReTrigger(e, args)
    \/ ReReturn
    \/ ReExec
    \/ ReAdvance

SpecRe == InitRe /\ [][NextRe]_vars


(***************************************************************************)
(* Part 5: the property wrappers (sstlprop.hpp).  A host object holds a    *)
(* value of _Value_t; a property holds the host pointer and the static     *)
(* functions that call the host's getter and setter.                       *)
(* SpecProp: the operations on a ss::PropertyT of one host and a           *)
(* ro::PropertyT of another, and writes to the hosts that do not go        *)
(* through a property.                                                     *)
(***************************************************************************)
Modulus == 2 ^ ValueBits
Values == 0 .. (Modulus - 1)
\* the values the program gives as the operand that is not a property
Operands == {0, 1, Modulus - 1}

\* the getters and setters of the host class: value() and cvalue() const
\* return the value; setValue(v) and assign(v), which returns the host,
\* store v; setClamped(v) stores v or, if v is above Limit, Limit
Getters == {"value"}
ConstGetters == {"cvalue"}
Setters == {"setValue", "setClamped"}
RetSetters == {"assign"}
Limit == 2

\* the operators of the wrappers
ArithOps == {"+", "-", "*", "/"}
BitOps == {"|", "&", "^"}
CompareOps == {"==", "!=", "<", "<=", ">", ">="}
UnaryOps == {"!", "~"}
\* the two orders in which the operands of a built-in operator are evaluated
Orders == {"lr", "rl"}

\* the static functions getter<>, constget<>, setter<>, setret<>
getter(class, member) == [class |-> class, member |-> member, fn |-> "getter"]
constget(class, member) == [class |-> class, member |-> member, fn |-> "constget"]
setter(class, member) == [class |-> class, member |-> member, fn |-> "setter"]
setret(class, member) == [class |-> class, member |-> member, fn |-> "setret"]

\* void bind<_Host_t, _Getter, _Setter>(_Host_t *host)
prop_bind(f, class, g, st, target) ==
    [f EXCEPT !.m_host = target, !.m_get = getter(class, g),
              !.m_set = setter(class, st)]

\* void bind<_Host_t, _Getter, _Setter>(_Host_t const *host)
prop_bind_const(f, class, g, st, target) ==
    [f EXCEPT !.m_host = target, !.m_get = constget(class, g),
              !.m_set = setter(class, st)]

\* the same with a setter that returns _Host_t&
prop_bind_ret(f, class, g, st, target) ==
    [f EXCEPT !.m_host = target, !.m_get = constget(class, g),
              !.m_set = setret(class, st)]

\* ro::PropertyT: void bind<_Host_t, _Method>(_Host_t *host)
ro_bind(f, class, g, target) ==
    [f EXCEPT !.m_host = target, !.m_get = getter(class, g)]

\* ro::PropertyT: void bind<_Host_t, _Method>(_Host_t const *host)
ro_bind_const(f, class, g, target) ==
    [f EXCEPT !.m_host = target, !.m_get = constget(class, g)]

\* the hosts and what an operation has done so far: the calls of getters
\* and setters it made, whether it left defined behaviour, and the value
\* of the expression it evaluated last
Hosts == [m_value |-> m_value, calls |-> << >>, ub |-> FALSE, value |-> 0]

\* one entry of calls: member fn of host t was called, with value v as its
\* parameter (a setter) or its result (a getter)
Called(fn, t, v) == [fn |-> fn, host |-> t, value |-> v]

\* what the setter member stores when it is given v
stored(member, v) ==
    IF member = "setClamped" /\ v > Limit THEN Limit ELSE v

\* mutant: the value read last is given again, the getter is not called
get_cached(X, f) == X

\* _Value_t get() const: (*m_get)(m_host), which calls the getter of the
\* host; a call through a null m_get is undefined
get(X, f) ==
    IF f.m_get = NullCall \/ f.m_host = NullPtr
    THEN [X EXCEPT !.ub = TRUE]
    ELSE [X EXCEPT !.calls = Append(@, Called(f.m_get.member, f.m_host,
                                              X.m_value[f.m_host])),
                   !.value = X.m_value[f.m_host]]

\* void set(_Value_t value): (*m_set)(m_host, value)
set(X, f, v) ==
    IF f.m_set = NullCall \/ f.m_host = NullPtr
    THEN [X EXCEPT !.ub = TRUE]
    ELSE [X EXCEPT !.calls = Append(@, Called(f.m_set.member, f.m_host, v)),
                   !.m_value[f.m_host] = stored(f.m_set.member, v)]

\* operator _Value_t() const and _Value_t operator ()() const
convert(X, f) == get(X, f)
op_get(X, f) == get(X, f)

\* a | b, a & b, a ^ b on the n low bits
RECURSIVE bitwise(_, _, _, _)
bitwise(op, a, b, n) ==
    IF n = 0 THEN 0
    ELSE LET x == a % 2
             y == b % 2
             z == CASE op = "|" -> IF x + y > 0 THEN 1 ELSE 0
                    [] op = "&" -> x * y
                    [] op = "^" -> (x + y) % 2
         IN z + 2 * bitwise(op, a \div 2, b \div 2, n - 1)

\* a op b, converted to _Value_t
apply(op, a, b) ==
    CASE op = "+" -> (a + b) % Modulus
      [] op = "-" -> (a - b) % Modulus
      [] op = "*" -> (a * b) % Modulus
      [] op = "/" -> a \div b
      [] op \in BitOps -> bitwise(op, a, b, ValueBits)

\* a op b of a comparison
holds(op, a, b) ==
    CASE op = "==" -> a = b
      [] op = "!=" -> a # b
      [] op = "<" -> a < b
      [] op = "<=" -> a <= b
      [] op = ">" -> a > b
      [] op = ">=" -> a >= b

\* a division by zero is undefined
Undefined(op, b) == op = "/" /\ b = 0

\* _Value_t operator =(_Value_t value): set(value); return get();
prop_assign(X, f, v) ==
    LET X1 == set(X, f, v)
    IN IF X1.ub THEN X1 ELSE get(X1, f)

\* mutant: the value computed is returned, the getter is not called again
compound_computed(X, f, op, v) ==
    LET X1 == get(X, f)
    IN IF X1.ub THEN X1
       ELSE IF Undefined(op, v) THEN [X1 EXCEPT !.ub = TRUE]
       ELSE [set(X1, f, apply(op, X1.value, v)) EXCEPT
                !.value = apply(op, X1.value, v)]

\* _Value_t operator op=(_Type_t value): set(get() op value); return get();
compound(X, f, op, v) ==
    LET X1 == get(X, f)
    IN IF X1.ub THEN X1
       ELSE IF Undefined(op, v) THEN [X1 EXCEPT !.ub = TRUE]
       ELSE LET X2 == set(X1, f, apply(op, X1.value, v))
            IN IF X2.ub THEN X2 ELSE get(X2, f)

\* _Value_t operator op(_Type_t value) const: return (get() op value);
binary(X, f, op, v) ==
    LET X1 == get(X, f)
    IN IF X1.ub THEN X1
       ELSE IF Undefined(op, v) THEN [X1 EXCEPT !.ub = TRUE]
       ELSE [X1 EXCEPT !.value = apply(op, X1.value, v)]

\* get() and value.get(), in the order the build evaluates them: the
\* values of the left and of the right operand
both(X, f, g, order) ==
    LET first == IF order = "lr" THEN f ELSE g
        second == IF order = "lr" THEN g ELSE f
        X1 == get(X, first)
        X2 == IF X1.ub THEN X1 ELSE get(X1, second)
    IN [X |-> X2,
        left |-> IF order = "lr" THEN X1.value ELSE X2.value,
        right |-> IF order = "lr" THEN X2.value ELSE X1.value]

\* _Value_t operator op(const PropertyT<_Type_t> &value) const:
\* return (get() op value.get());
binary_prop(X, f, op, g, order) ==
    LET r == both(X, f, g, order)
    IN IF r.X.ub THEN r.X
       ELSE IF Undefined(op, r.right) THEN [r.X EXCEPT !.ub = TRUE]
       ELSE [r.X EXCEPT !.value = apply(op, r.left, r.right)]

\* bool operator op(_Type_t value) const: return (get() op value);
compare(X, f, op, v) ==
    LET X1 == get(X, f)
    IN IF X1.ub THEN X1 ELSE [X1 EXCEPT !.value = holds(op, X1.value, v)]

\* bool operator op(const PropertyT<_Type_t> &value) const
compare_prop(X, f, op, g, order) ==
    LET r == both(X, f, g, order)
    IN IF r.X.ub THEN r.X
       ELSE [r.X EXCEPT !.value = holds(op, r.left, r.right)]

\* bool operator !() const: !bool(get()); _Value_t operator ~() const: ~get()
unary(X, f, op) ==
    LET X1 == get(X, f)
    IN IF X1.ub THEN X1
       ELSE [X1 EXCEPT !.value = IF op = "!" THEN X1.value = 0
                                 ELSE (Modulus - 1) - X1.value]

(* ------------------------------ operations ----------------------------- *)
SetProp(x, f, op) ==
    /\ ~ub
    /\ prop' = [prop EXCEPT ![x] = f]
    /\ lastOp' = op
    /\ calls' = << >>
    /\ UNCHANGED <<shvars, mtvars, m_delegates, arity, it, fnvars, arg, m_value>>

\* x.bind<Host, g, st>(&owner)
PrBind(x, g, st) ==
    SetProp(x, prop_bind(prop[x], "Host", g, st, Owner[x]), "bind")

\* x.bind<Host, g, st>(&owner), g const
PrBindConst(x, g, st) ==
    SetProp(x, prop_bind_const(prop[x], "Host", g, st, Owner[x]), "bind_const")

\* x.bind<Host, g, st>(&owner), g const and st returning Host&
PrBindRet(x, g, st) ==
    SetProp(x, prop_bind_ret(prop[x], "Host", g, st, Owner[x]), "bind_ret")

\* x.bind<Host, g>(&owner) of a ro::PropertyT
PrBindRO(x, g) ==
    SetProp(x, ro_bind(prop[x], "Host", g, Owner[x]), "ro_bind")

\* x.bind<Host, g>(&owner) of a ro::PropertyT, g const
PrBindROConst(x, g) ==
    SetProp(x, ro_bind_const(prop[x], "Host", g, Owner[x]), "ro_bind_const")

\* the program changes the value of host t without a property
HostWrite(t, v) ==
    /\ ~ub
    /\ m_value' = [m_value EXCEPT ![t] = v]
    /\ lastOp' = "host_write"
    /\ calls' = << >>
    /\ UNCHANGED <<shvars, mtvars, m_delegates, arity, it, fnvars, arg, prop>>

\* an operation of a property: what it did to the hosts, the calls it made
\* and what it returned
Eval(X, op) ==
    /\ ~ub
    /\ m_value' = X.m_value
    /\ calls' = X.calls
    /\ ub' = X.ub
    /\ answer' = X.value
    /\ lastOp' = op
    /\ UNCHANGED <<live, m_pointer, blk, nextBlock, released, trace, mtvars,
                   m_delegates, arity, it, functor, arg, prop>>

\* x.get(), _Value_t(x), x()
PrGet(x) == Eval(get(Hosts, prop[x]), "get")
PrConvert(x) == Eval(convert(Hosts, prop[x]), "convert")
PrOpGet(x) == Eval(op_get(Hosts, prop[x]), "op_get")

\* x.set(v)
PrSet(x, v) == Eval(set(Hosts, prop[x], v), "set")

\* x = v
PrAssign(x, v) == Eval(prop_assign(Hosts, prop[x], v), "assign_value")

\* x op= v
PrCompound(x, op, v) == Eval(compound(Hosts, prop[x], op, v), "compound")

\* x op v, x op y
PrBinary(x, op, v) == Eval(binary(Hosts, prop[x], op, v), "binary")
PrBinaryProp(x, op, y, order) ==
    Eval(binary_prop(Hosts, prop[x], op, prop[y], order), "binary_prop")

\* x == v, x < y, ...
PrCompare(x, op, v) == Eval(compare(Hosts, prop[x], op, v), "compare")
PrCompareProp(x, op, y, order) ==
    Eval(compare_prop(Hosts, prop[x], op, prop[y], order), "compare_prop")

\* !x, ~x
PrUnary(x, op) == Eval(unary(Hosts, prop[x], op), "unary")

InitProp ==
    /\ NoHandles
    /\ lastOp = "init"
    /\ NoEvents /\ arity = 0 /\ NoFunctors /\ NoProperties

NextProp ==
    \/ \E x \in Props, g \in Getters, st \in Setters : PrBind(x, g, st)
    \/ \E x \in Props, g \in ConstGetters, st \in Setters : PrBindConst(x, g, st)
    \/ \E x \in Props, g \in ConstGetters, st \in RetSetters : PrBindRet(x, g, st)
    \/ \E x \in ROProps, g \in Getters : PrBindRO(x, g)
    \/ \E x \in ROProps, g \in ConstGetters : PrBindROConst(x, g)
    \/ \E t \in Targets, v \in Values : HostWrite(t, v)
    \/ \E x \in Props \cup ROProps : PrGet(x)
    \/ \E x \in Props \cup ROProps : PrConvert(x)
    \/ \E x \in Props \cup ROProps : PrOpGet(x)
    \/ \E x \in Props, v \in Values : PrSet(x, v)
    \/ \E x \in Props, v \in Values : PrAssign(x, v)
    \/ \E x \in Props, op \in ArithOps \cup BitOps, v \in Operands :
          PrCompound(x, op, v)
    \/ \E x \in Props \cup ROProps, op \in ArithOps \cup BitOps, v \in Operands :
          PrBinary(x, op, v)
    \/ \E x \in Props \cup ROProps, op \in ArithOps \cup BitOps, y \in Props \cup ROProps,
          order \in Orders : PrBinaryProp(x, op, y, order)
    \/ \E x \in Props \cup ROProps, op \in CompareOps, v \in Operands :
          PrCompare(x, op, v)
    \/ \E x \in Props \cup ROProps, op \in CompareOps, y \in Props \cup ROProps,
          order \in Orders : PrCompareProp(x, op, y, order)
    \/ \E x \in Props \cup ROProps, op \in UnaryOps : PrUnary(x, op)

SpecProp == InitProp /\ [][NextProp]_vars


(***************************************************************************)
(* Properties of SharedT.                                                  *)
(***************************************************************************)
\* the live handles whose m_pointer is b
Holders(b) == {h \in Handles : live[h] /\ m_pointer[h] = b}

\* h.shares() and h.data() in the current state
Shares(h) == shares(Mem, h)
Data(h) == data(Mem, h)

\* the kinds of the entries of the last operation's trace
HasEv(k) == \E i \in DOMAIN trace : trace[i].k = k

\* C1: after every operation the refs counter of each pointer_t equals the
\* number of live handles whose m_pointer references it, and shares() of
\* each of those handles returns that number.
RefsEqualsHolders ==
    \A b \in Blocks :
        /\ blk[b].refs = Cardinality(Holders(b))
        /\ \A h \in Holders(b) : Shares(h) = Cardinality(Holders(b))

\* after a handle assignment moved a handle from one pointer_t to another
\* one that now has two holders
RefsEqualsHoldersWitness ==
    /\ lastOp = "assign" /\ HasEv("dec") /\ HasEv("inc")
    /\ \E b \in Blocks : Cardinality(Holders(b)) = 2

\* C2: the release function of a pointer_t is invoked exactly once, by the
\* operation that takes its last holder away, and never a second time: a
\* pointer_t that was allocated and has no holder left has been released
\* once, every other one not at all.
ReleasedExactlyOnce ==
    \A b \in Blocks :
        released[b] = IF b < nextBlock /\ Holders(b) = {} THEN 1 ELSE 0

\* every handle is destroyed, the last destructor released the pointer_t
ReleasedExactlyOnceWitness ==
    /\ lastOp = "dtor" /\ HasEv("call") /\ HasEv("delete")
    /\ \A h \in Handles : ~live[h]
    /\ \E b \in Blocks : released[b] = 1

\* C3: no live handle references a destroyed pointer_t: while a handle is
\* attached to a pointer_t, it is not deleted and its release function has
\* not run.
NoHandleOnDestroyedBlock ==
    /\ ~ub
    /\ \A h \in Handles :
          (live[h] /\ m_pointer[h] # NULL) =>
              /\ blk[m_pointer[h]].st = "live"
              /\ released[m_pointer[h]] = 0

\* a destructor dropped one of several references: the pointer_t survives
\* with its other holder
NoHandleOnDestroyedBlockWitness ==
    /\ lastOp = "dtor" /\ HasEv("dec") /\ ~HasEv("delete")
    /\ \E h \in Handles : live[h] /\ m_pointer[h] # NULL

\* C4: with threads working on their own handles of one pointer_t, no
\* update of refs is lost: once every thread is outside retain()/release()
\* the count equals the number of live handles, and the release function
\* ran exactly once if no handle is left and not at all otherwise.
AtomicRefCount ==
    (\A t \in Threads : Idle(t)) =>
        /\ ~ub
        /\ \A b \in Blocks :
              /\ blk[b].refs = Cardinality(Holders(b))
              /\ released[b] = IF b < nextBlock /\ Holders(b) = {} THEN 1 ELSE 0

(***************************************************************************)
(* Properties of single operations: in every reachable state, for every   *)
(* operation that can be called there, the memory S the operation leaves   *)
(* is compared with the current memory.                                    *)
(***************************************************************************)
HoldersIn(S, b) == {h \in Handles : S.live[h] /\ S.m_pointer[h] = b}

\* S is the current memory but for its trace
SameMemory(S) ==
    /\ S.live = live /\ S.m_pointer = m_pointer /\ S.blk = blk
    /\ S.nextBlock = nextBlock /\ S.released = released /\ S.ub = ub

\* the operation wrote no count, built or deleted no pointer_t and called no
\* release function
NoMemoryEvent(tr) ==
    \A i \in DOMAIN tr :
        tr[i].k \notin {"inc", "dec", "new", "call", "free", "delete"}

\* the positions of the entries of kind k in a trace
IndexOf(tr, k) == {i \in DOMAIN tr : tr[i].k = k}

\* C5: handle assignment between two handles that already reference the
\* identical pointer_t (h = h with shares() 1 included) changes nothing:
\* shares(), data() and the pointer_t are unchanged, the count is never
\* written and the release function is not invoked.
AssignSameBlockIsNoOp ==
    \A h \in Handles, o \in Handles :
        (CanCall(h) /\ live[o] /\ m_pointer[h] = m_pointer[o]) =>
            LET S == assign(Mem, h, o)
            IN /\ SameMemory(S)
               /\ NoMemoryEvent(S.trace)
               /\ shares(S, h) = Shares(h) /\ data(S, h) = Data(h)

\* an assignment found the identical pointer_t, which has one reference:
\* the self-assignment of a sole owner
AssignSameBlockWitness ==
    /\ lastOp = "assign" /\ Len(trace) = 1 /\ trace[1].k = "same"
    /\ trace[1].b # NULL /\ blk[trace[1].b].refs = 1

\* C6: assign(ptr, fn) and operator=(ptr) with ptr equal to the handle's
\* current data() are no-ops in every handle state: shares(), the pointer_t
\* and its release function are unchanged, no pointer_t is created and no
\* release function is invoked.
AssignSamePtrIsNoOp ==
    \A h \in Handles :
        CanCall(h) =>
            /\ \A fn \in CallerFns :
                  LET S == assign_ptr(Mem, h, Data(h), fn)
                  IN SameMemory(S) /\ NoMemoryEvent(S.trace)
            /\ LET S == op_assign_ptr(Mem, h, Data(h))
               IN SameMemory(S) /\ NoMemoryEvent(S.trace)

\* assign() was called with the non-null pointer the handle already holds
AssignSamePtrWitness ==
    /\ lastOp = "assign_ptr" /\ Len(trace) = 1 /\ trace[1].k = "same_ptr"
    /\ trace[1].b # NULL /\ trace[1].v # NULL
    /\ blk[trace[1].b].st = "live"

\* what assign(ptr, fn) with ptr # data() leaves in S: for the pointer_t the
\* handle held, for the handle, and with fnStored the release function of
\* the new pointer_t
AssignNewPtrPost(S, h, p, fnStored) ==
    LET old == m_pointer[h]
        new == S.m_pointer[h]
    IN /\ new # NULL /\ new # old
       /\ blk[new].st = "free" /\ S.blk[new].st = "live"
       /\ shares(S, h) = 1
       /\ data(S, h) = p
       /\ S.blk[new].deleteFun = fnStored
       /\ old # NULL =>
             /\ S.released[old] = released[old] + (IF Holders(old) = {h} THEN 1 ELSE 0)
             /\ \A g \in Holders(old) \ {h} : shares(S, g) = Shares(g) - 1
       /\ \A b \in Blocks \ {old, new} :
             S.blk[b] = blk[b] /\ S.released[b] = released[b]
       /\ ~S.ub

\* C7 as stated: assign(ptr, fn) with ptr # data() drops the reference to
\* the old pointer_t (its release function runs exactly when the handle was
\* the last holder, other holders see shares() one less) and leaves the
\* handle with shares() = 1 and data() = ptr on a fresh pointer_t whose
\* release function is fn.
AssignNewPtrStoresFn ==
    [][\A h \in Handles, p \in Ptrs, fn \in CallerFns :
          (lastOp' = "assign_ptr" /\ p # Data(h) /\ AssignPtr(h, p, fn)) =>
              AssignNewPtrPost(Mem', h, p, fn)]_vars

\* C7 amended: ... whose release function is fn, or the default release
\* function pointer_t::release when fn is NULL.
AssignNewPtrStoresFnOrDefault ==
    \A h \in Handles, p \in Ptrs, fn \in CallerFns :
        (CanCall(h) /\ p # Data(h) /\ CanAlloc(1)) =>
            AssignNewPtrPost(assign_ptr(Mem, h, p, fn), h, p,
                             IF fn = NullFn THEN DefaultRelease ELSE fn)

\* assign(ptr, NULL) released the last reference to the old pointer_t and
\* built a new one, which got the default release function
AssignNewPtrWitness ==
    /\ lastOp = "assign_ptr" /\ HasEv("delete")
    /\ trace[Len(trace)].k = "new"
    /\ trace[Len(trace)].f = DefaultRelease

\* C8: SharedT(ptr, destructor) stores destructor as the release function
\* of the pointer_t it creates, so that destructor, called once with ptr,
\* and not the default release is what runs when the count reaches zero.
CtorStoresDestructor ==
    [][\A h \in Handles, p \in Ptrs :
          (lastOp' = "ctor_ptr_fn" /\ PtrFnCtor(h, p, CustomD)) =>
              LET T == dtor(Mem', h)
              IN /\ m_pointer'[h] # NULL
                 /\ blk'[m_pointer'[h]].data = p
                 /\ blk'[m_pointer'[h]].deleteFun = CustomD
                 /\ IndexOf(T.trace, "call") # {}
                 /\ \A i \in IndexOf(T.trace, "call") :
                       T.trace[i].f = CustomD /\ T.trace[i].v = p
                 /\ IndexOf(T.trace, "free") = {}]_vars

\* C9: copy construction creates no pointer_t; the copy and the source
\* report the same data() and the same shares(), the source's previous
\* shares() plus one; the source's data() and release function are
\* unchanged; the copy of an unattached handle is unattached, shares() 0.
CopySharesBlock ==
    \A h \in Handles, o \in Handles :
        (CanConstruct(h) /\ live[o]) =>
            LET S == ctor_copy(Mem, h, o)
                b == m_pointer[o]
            IN /\ S.nextBlock = nextBlock
               /\ IndexOf(S.trace, "new") = {}
               /\ S.live[h] /\ S.live[o]
               /\ S.m_pointer[h] = b /\ S.m_pointer[o] = b
               /\ data(S, h) = data(S, o) /\ data(S, o) = Data(o)
               /\ shares(S, h) = shares(S, o)
               /\ IF b = NULL
                  THEN shares(S, h) = 0 /\ S.blk = blk
                  ELSE /\ shares(S, o) = Shares(o) + 1
                       /\ S.blk[b].deleteFun = blk[b].deleteFun
                       /\ S.blk[b].st = "live"
               /\ S.released = released
               /\ ~S.ub

\* a copy made the second holder of a pointer_t
CopySharesBlockWitness ==
    /\ lastOp = "copy" /\ Len(trace) = 1 /\ trace[1].k = "inc"
    /\ trace[1].v = 2
    /\ Cardinality(Holders(trace[1].b)) = 2

\* C10: a = b with different pointer_t's first drops a's reference to its
\* old pointer_t (released exactly when a was the last holder) and only
\* then attaches a to b's pointer_t and increments it; afterwards
\* a.data() = b.data() and a.shares() = b.shares() = b's previous shares()
\* plus one.  With b unattached a ends with data() NULL and shares() 0.
\* Every other holder of a's old pointer_t sees shares() reduced by one.
AssignReleasesThenRetains ==
    \A h \in Handles, o \in Handles :
        (CanCall(h) /\ live[o] /\ m_pointer[h] # m_pointer[o]) =>
            LET S == assign(Mem, h, o)
                old == m_pointer[h]
                new == m_pointer[o]
                decs == IndexOf(S.trace, "dec")
                incs == IndexOf(S.trace, "inc")
                dels == IndexOf(S.trace, "delete")
            IN /\ S.m_pointer[h] = new /\ S.m_pointer[o] = new
               /\ \A i \in incs, j \in decs \cup dels : j < i
               /\ \A i \in decs : S.trace[i].b = old
               /\ \A i \in incs : S.trace[i].b = new
               /\ Cardinality(decs) = (IF old = NULL THEN 0 ELSE 1)
               /\ Cardinality(incs) = (IF new = NULL THEN 0 ELSE 1)
               /\ data(S, h) = data(S, o) /\ shares(S, h) = shares(S, o)
               /\ IF new = NULL
                  THEN data(S, h) = NULL /\ shares(S, h) = 0
                  ELSE shares(S, o) = Shares(o) + 1 /\ data(S, o) = Data(o)
               /\ old # NULL =>
                     /\ S.released[old] = released[old] + (IF Holders(old) = {h} THEN 1 ELSE 0)
                     /\ \A g \in Holders(old) \ {h} : shares(S, g) = Shares(g) - 1
               /\ ~S.ub

\* an assignment left a pointer_t that keeps another holder and joined a
\* pointer_t that already had one
AssignReleasesThenRetainsWitness ==
    /\ lastOp = "assign" /\ Len(trace) = 2
    /\ trace[1].k = "dec" /\ trace[1].v = 1
    /\ trace[2].k = "inc" /\ trace[2].v = 2
    /\ trace[1].b # trace[2].b

\* C11: shares() is 0 exactly for the handles without a pointer_t and at
\* least 1 for every attached handle, a handle built from a NULL raw pointer
\* included; the count release() computes after the decrement is never
\* negative.
SharesZeroIffUnattached ==
    /\ Running =>
          \A h \in Handles :
              live[h] =>
                  /\ (Shares(h) = 0) <=> (m_pointer[h] = NULL)
                  /\ m_pointer[h] # NULL => Shares(h) >= 1
    /\ \A i \in DOMAIN trace : trace[i].k = "dec" => trace[i].v >= 0
    /\ \A h \in Handles : CanCall(h) => release_result(Mem, h) >= 0
    /\ \A h \in Handles :
          (CanConstruct(h) /\ CanAlloc(1)) =>
              shares(ctor_ptr(Mem, h, NULL), h) = 1

\* a handle built from a NULL raw pointer is attached, with shares() 1 and
\* data() NULL, next to an unattached handle
SharesZeroIffUnattachedWitness ==
    /\ lastOp = "ctor_ptr" /\ trace[1].v = NULL
    /\ \E h \in Handles :
          live[h] /\ m_pointer[h] = trace[1].b /\ Shares(h) = 1 /\ Data(h) = NULL
    /\ \E g \in Handles : live[g] /\ m_pointer[g] = NULL /\ Shares(g) = 0

\* C12: operator bool is true exactly when data() # NULL, that is when the
\* handle has a pointer_t whose data is not NULL, and operator! is its
\* negation; a handle built from a NULL raw pointer converts to false with
\* shares() 1, a default constructed one converts to false with shares() 0.
BoolIffDataNotNull ==
    /\ \A h \in Handles :
          CanCall(h) =>
              /\ operator_bool(Mem, h) <=>
                    (m_pointer[h] # NULL /\ blk[m_pointer[h]].data # NULL)
              /\ operator_not(Mem, h) <=> ~operator_bool(Mem, h)
    /\ \A h \in Handles :
          (CanConstruct(h) /\ CanAlloc(1)) =>
              LET S == ctor_ptr(Mem, h, NULL)
              IN ~operator_bool(S, h) /\ operator_not(S, h) /\ shares(S, h) = 1
    /\ \A h \in Handles :
          CanConstruct(h) =>
              LET S == ctor_default(Mem, h)
              IN ~operator_bool(S, h) /\ operator_not(S, h) /\ shares(S, h) = 0

\* a handle built from a NULL raw pointer owns a pointer_t and converts to
\* false, while another handle converts to true
BoolIffDataNotNullWitness ==
    /\ lastOp = "ctor_ptr" /\ trace[1].v = NULL /\ Running
    /\ \E h \in Handles :
          /\ live[h] /\ m_pointer[h] = trace[1].b
          /\ ~operator_bool(Mem, h) /\ Shares(h) = 1
    /\ \E g \in Handles : live[g] /\ operator_bool(Mem, g)

\* C13: release() leaves the handle without a pointer_t whether or not it
\* dropped the last reference; on an unattached handle it does nothing and
\* returns 0; so a second release() in a row returns 0, writes no count and
\* invokes no release function.
ReleaseClearsHandle ==
    \A h \in Handles :
        CanCall(h) =>
            LET S == release(Mem, h)
                T == release([S EXCEPT !.trace = <<>>], h)
            IN /\ S.m_pointer[h] = NULL
               /\ m_pointer[h] = NULL =>
                     /\ SameMemory(S) /\ S.trace = <<>>
                     /\ release_result(Mem, h) = 0
               /\ m_pointer[h] # NULL =>
                     /\ Cardinality(IndexOf(S.trace, "dec")) = 1
                     /\ S.blk[m_pointer[h]].refs =
                           (IF Shares(h) = 1 THEN 0 ELSE Shares(h) - 1)
                     /\ S.released[m_pointer[h]] <= 1
               /\ release_result(S, h) = 0
               /\ T.trace = <<>>
               /\ T.blk = S.blk /\ T.released = S.released
               /\ T.m_pointer = S.m_pointer /\ T.ub = S.ub

\* release() dropped a reference that was not the last one and left the
\* handle, which still exists, without a pointer_t
ReleaseClearsHandleWitness ==
    /\ lastOp = "assign" /\ Len(trace) = 1
    /\ trace[1].k = "dec" /\ trace[1].v >= 1
    /\ blk[trace[1].b].st = "live"
    /\ \E h \in Handles : live[h] /\ m_pointer[h] = NULL

(***************************************************************************)
(* Properties of the events.  As for SharedT, a property of an operation   *)
(* compares what the operation gives in a reachable state with that state. *)
(***************************************************************************)
\* the calls trigger() itself made, without those of nested trigger() calls
TopLevel(log) == LET Top(c) == c.depth = 0 IN SelectSeq(log, Top)

\* how often d is in the sequence L
Occurrences(L, d) == Cardinality({i \in DOMAIN L : L[i] = d})

\* C14: trigger() and operator() call every delegate of the event once per
\* list entry, one after the other, in the order of the list, which is the
\* order in which bind, add, operator<< and link appended, each with the
\* parameters of trigger(); for all three specializations.  A call of a
\* delegate that does not return (a link that leads back to the event) ends
\* the dispatch there.
TriggerCallsInOrder ==
    /\ \A e \in Events, e2 \in Events, d \in Delegates :
          LET L == m_delegates[e]
          IN /\ link(m_delegates, e, e2)[e] =
                   L \o <<functor_from("EventT", "trigger", e2)>>
             /\ shl(m_delegates, e, d)[e] = L \o <<d>>
             /\ d.m_call.class = "Target" =>
                   bind(m_delegates, e, "Target", d.m_call.member, d.m_host)[e]
                       = L \o <<d>>
    /\ it.st = "loop" =>
          LET r == add_step(m_delegates, it)
          IN r.it.st = "done" =>
                \/ r.D = m_delegates
                \/ r.D[it.e] = m_delegates[it.e] \o <<it.callback>>
    /\ \A e \in Events, args \in ArgsOf(arity) :
        EvRunning =>
            LET r == trigger(m_delegates, e, args)
                top == TopLevel(r.log)
                L == m_delegates[e]
            IN /\ op_call(m_delegates, e, args) = r
               /\ Len(top) <= Len(L)
               /\ \A i \in DOMAIN top : top[i].f = L[i] /\ top[i].args = args
               /\ \A i \in DOMAIN r.log :
                     r.log[i].args = args /\ Len(r.log[i].args) = arity
               /\ r.returns => Len(top) = Len(L)
               /\ \A i \in DOMAIN r.log :
                     r.log[i].depth > 0 => i > 1 /\ r.log[i - 1].depth >= r.log[i].depth - 1

\* a trigger() with two parameters called a link, the delegate of the
\* linked event inside it, and then the next delegate
TriggerCallsInOrderWitness ==
    /\ lastOp = "trigger" /\ arity = 2 /\ Len(calls) = 3
    /\ calls[1].depth = 0 /\ calls[2].depth = 1 /\ calls[3].depth = 0
    /\ calls[1].f.m_call.member = "trigger"
    /\ calls[3].args = <<2, 1>>

\* C15 as stated: after add(callback) the list is unchanged if some entry,
\* at any position, equals callback, and otherwise is the previous list with
\* callback appended once at the end.
AddKeepsOrAppends ==
    (it.st = "loop") ~>
        (/\ it.st = "done"
         /\ m_delegates[it.e] =
               IF \E i \in DOMAIN it.before : functor_eq(it.before[i], it.callback)
               THEN it.before
               ELSE Append(it.before, it.callback))

\* C16 as stated: add(callback) terminates for every event content.
AddTerminates == (it.st = "loop") ~> (it.st # "loop")

\* C17: unbound(target) erases every delegate whose host is target, bound
\* to whatever member function, a link to the event target included, erases
\* no delegate of another host, and keeps the order of the others; without
\* a delegate of that host the list is unchanged.
UnboundErasesHost ==
    \A e \in Events, p \in Targets \cup Events :
        EvRunning =>
            LET D == unbound(m_delegates, e, p)
                L == m_delegates[e]
                Other(d) == d.m_host # p
            IN /\ D[e] = SelectSeq(L, Other)
               /\ \A i \in DOMAIN D[e] : D[e][i].m_host # p
               /\ \A d \in Delegates :
                     d.m_host # p => Occurrences(D[e], d) = Occurrences(L, d)
               /\ (\A i \in DOMAIN L : L[i].m_host # p) => D[e] = L
               /\ \A o \in Events \ {e} : D[o] = m_delegates[o]

\* unbound() erased two delegates of one host, bound to different member
\* functions, and kept a delegate of another host
UnboundErasesHostWitness ==
    /\ lastOp = "unbound" /\ Len(calls) = 2
    /\ calls[1].m_host = calls[2].m_host
    /\ calls[1].m_call # calls[2].m_call
    /\ \E e \in Events :
          Len(m_delegates[e]) = 1 /\ m_delegates[e][1].m_host # calls[1].m_host

\* C18: remove(callback) erases every entry equal to callback by host and
\* trampoline, all duplicates, leaves the delegates of the same host bound
\* to another member function, and keeps the order of the others.
RemoveErasesEqual ==
    \A e \in Events, callback \in Delegates :
        EvRunning =>
            LET D == remove(m_delegates, e, callback)
                L == m_delegates[e]
                Other(d) == d.m_host # callback.m_host \/ d.m_call # callback.m_call
            IN /\ D[e] = SelectSeq(L, Other)
               /\ Occurrences(D[e], callback) = 0
               /\ \A d \in Delegates \ {callback} :
                     Occurrences(D[e], d) = Occurrences(L, d)
               /\ \A o \in Events \ {e} : D[o] = m_delegates[o]

\* remove() erased both entries of a delegate and left the delegate of the
\* same host that is bound to the other member function
RemoveErasesEqualWitness ==
    /\ lastOp = "remove" /\ Len(calls) = 2
    /\ calls[1] = calls[2]
    /\ \E e \in Events :
          /\ Len(m_delegates[e]) = 1
          /\ m_delegates[e][1].m_host = calls[1].m_host
          /\ m_delegates[e][1].m_call # calls[1].m_call

\* C19: bind<T, M>(target) and operator<<(delegate) always append one entry
\* at the end of the list and raise count() by one, also when an equal
\* delegate is in the list; a delegate bound twice is called twice by one
\* trigger() that returns.
BindAlwaysAppends ==
    (EvRunning /\ CanAppend) =>
        /\ \A e \in Events, m \in Members, t \in Targets :
              LET D == bind(m_delegates, e, "Target", m, t)
                  d == functor_from("Target", m, t)
              IN /\ D[e] = m_delegates[e] \o <<d>>
                 /\ count(D, e) = count(m_delegates, e) + 1
                 /\ \A o \in Events \ {e} : D[o] = m_delegates[o]
                 /\ \A args \in ArgsOf(arity) :
                       LET D2 == bind(D, e, "Target", m, t)
                           r == trigger(D2, e, args)
                       IN /\ count(D2, e) = count(m_delegates, e) + 2
                          /\ r.returns =>
                                Occurrences(TopLevel(r.log), Exec(d, args, 0))
                                    = Occurrences(m_delegates[e], d) + 2
        /\ \A e \in Events, d \in Delegates :
              LET D == shl(m_delegates, e, d)
              IN /\ D[e] = m_delegates[e] \o <<d>>
                 /\ count(D, e) = count(m_delegates, e) + 1
                 /\ \A o \in Events \ {e} : D[o] = m_delegates[o]

\* a trigger() called twice the delegate that was bound twice
BindAlwaysAppendsWitness ==
    /\ lastOp = "trigger" /\ Len(calls) = 2
    /\ calls[1] = calls[2] /\ calls[1].depth = 0
    /\ calls[1].f.m_call.class = "Target"
    /\ \E e \in Events :
          /\ count(m_delegates, e) = 2
          /\ m_delegates[e][1] = m_delegates[e][2]
          /\ m_delegates[e][1] = calls[1].f

\* C20: two functors compare equal exactly when their host pointers and
\* their trampolines are identical: the same host with different member
\* functions is unequal, the same member function on different hosts is
\* unequal, and from<H, M>(h) equals a functor bound with bind<H, M>(h).
FunctorEqualityIsIdentity ==
    /\ \A x \in Functors, y \in Functors :
          functor_eq(functor[x], functor[y]) <=> (functor[x] = functor[y])
    /\ \A x \in Functors, h \in Targets, k \in Targets,
          m \in Members, n \in Members :
          LET a == functor_bind(functor[x], "Target", m, h)
              b == functor_bind(FunctorT, "Target", n, k)
          IN /\ functor_eq(a, b) <=> (h = k /\ m = n)
             /\ functor_eq(functor_from("Target", m, h), a)
             /\ functor_eq(a, functor_from("Target", m, h))

\* the comparison of two functors with the same host and different member
\* functions returned false
FunctorEqualityWitness ==
    /\ lastOp = "eq" /\ answer = FALSE
    /\ functor["f"].m_host = functor["g"].m_host
    /\ functor["f"].m_host \in Targets
    /\ functor["f"].m_call # functor["g"].m_call

\* the entries of kind k of a trace, in order
EventsOf(tr, k) == LET Is(x) == x.k = k IN SelectSeq(tr, Is)

\* C24: assign(p, fn) on h2, with h2.data() # p, while h1 owns p gives h2 a
\* new pointer_t of its own: h1.shares() is what it was, h2.shares() is 1,
\* both report data() p, and when h1 is the only holder of its pointer_t,
\* destroying both handles calls a release function with p twice, once for
\* each pointer_t.
AssignPtrDoesNotMerge ==
    \A h1 \in Handles, h2 \in Handles, fn \in CallerFns :
        (/\ h1 # h2 /\ CanCall(h1) /\ CanCall(h2) /\ CanAlloc(1)
         /\ m_pointer[h1] # NULL /\ Data(h1) # Data(h2)) =>
            LET p == Data(h1)
                S == assign_ptr(Mem, h2, p, fn)
                b1 == S.m_pointer[h1]
                b2 == S.m_pointer[h2]
                T == dtor(dtor(S, h1), h2)
                called == EventsOf(T.trace, "call")
            IN /\ b1 = m_pointer[h1] /\ b2 # NULL /\ b2 # b1
               /\ data(S, h1) = p /\ data(S, h2) = p
               /\ shares(S, h1) = Shares(h1) /\ shares(S, h2) = 1
               /\ HoldersIn(S, b2) = {h2}
               /\ Shares(h1) = 1 =>
                     /\ Cardinality({i \in DOMAIN called : called[i].v = p}) = 2
                     /\ \E i \in DOMAIN called : called[i].b = b1 /\ called[i].v = p
                     /\ \E i \in DOMAIN called : called[i].b = b2 /\ called[i].v = p
                     /\ T.released[b1] = 1 /\ T.released[b2] = 1

\* two handles, neither a copy of the other, own the same object through
\* two pointer_t's with shares() 1 each
AssignPtrDoesNotMergeWitness ==
    /\ lastOp = "assign_ptr" /\ Running
    /\ \E h1 \in Handles, h2 \in Handles :
          /\ live[h1] /\ live[h2]
          /\ m_pointer[h1] # NULL /\ m_pointer[h2] # NULL
          /\ m_pointer[h1] # m_pointer[h2]
          /\ Data(h1) = Data(h2) /\ Data(h1) # NULL
          /\ Shares(h1) = 1 /\ Shares(h2) = 1

\* the counting of a pointer_t whose data is NULL: a copy raises shares()
\* by one, the end of a holder that is not the last lowers it by one
NullBlockIsCounted ==
    \A h \in Handles :
        (CanCall(h) /\ m_pointer[h] # NULL /\ Data(h) = NULL) =>
            /\ Shares(h) = Cardinality(Holders(m_pointer[h]))
            /\ \A g \in Handles :
                  CanConstruct(g) =>
                      shares(ctor_copy(Mem, g, h), h) = Shares(h) + 1
            /\ \A g \in Holders(m_pointer[h]) \ {h} :
                  shares(dtor(Mem, g), h) = Shares(h) - 1

\* C25 as stated: a pointer_t whose data is NULL is counted like any other,
\* and dropping its last reference deletes nothing and does no release work
\* for the null pointer, whichever release function it was created with.
NullBlockDropIsNoOp ==
    /\ NullBlockIsCounted
    /\ \A i \in DOMAIN trace :
          /\ trace[i].k = "free" => trace[i].v # NULL
          /\ (trace[i].k = "call" /\ trace[i].v = NULL) =>
                trace[i].f = DefaultRelease

\* C25 amended: ... dropping its last reference deletes nothing: the default
\* release function returns at once for the null pointer, while a release
\* function of the caller is still called once, with NULL.
NullBlockDropCallsCustom ==
    /\ NullBlockIsCounted
    /\ \A i \in DOMAIN trace : trace[i].k = "free" => trace[i].v # NULL
    /\ \A h \in Handles :
          (/\ CanCall(h) /\ m_pointer[h] # NULL /\ Data(h) = NULL
           /\ Holders(m_pointer[h]) = {h}) =>
              LET S == dtor(Mem, h)
                  b == m_pointer[h]
              IN /\ EventsOf(S.trace, "free") = << >>
                 /\ EventsOf(S.trace, "call") =
                       <<Ev("call", b, NULL, blk[b].deleteFun)>>
                 /\ S.released[b] = 1
                 /\ S.blk[b].st = "deleted"

\* the last reference to a pointer_t with data NULL and a release function
\* of the caller was dropped: the function was called with NULL
NullBlockDropWitness ==
    /\ lastOp \in {"dtor", "assign", "assign_ptr", "op_assign_ptr"}
    /\ \E i \in DOMAIN trace :
          /\ trace[i].k = "call" /\ trace[i].v = NULL /\ trace[i].f = CustomD
          /\ blk[trace[i].b].st = "deleted"
    /\ ~HasEv("free")

\* C26: data and deleteFun of a pointer_t are set when it is created and
\* never change while it exists; a pointer_t created with a NULL release
\* function has the default one, so that the function called when a
\* pointer_t is destroyed is never null.
BlockFieldsFixed ==
    /\ [](/\ \A b \in Blocks :
               blk[b].st = "live" => blk[b].deleteFun \in {DefaultRelease, CustomD}
          /\ \A i \in DOMAIN trace :
               trace[i].k \in {"new", "call"} => trace[i].f # NullFn)
    /\ [][\A b \in Blocks :
             /\ (blk[b].st = "live" /\ blk'[b].st = "live") =>
                   /\ blk'[b].data = blk[b].data
                   /\ blk'[b].deleteFun = blk[b].deleteFun
             /\ (blk[b].st = "live" /\ blk'[b].st = "deleted") =>
                   \E i \in DOMAIN trace' :
                      trace'[i] = Ev("call", b, blk[b].data, blk[b].deleteFun)
             /\ blk[b].st = "deleted" => blk'[b].st = "deleted"]_vars

\* a pointer_t with a release function of the caller has been copied and
\* another pointer_t has the default one
BlockFieldsFixedWitness ==
    /\ \E b \in Blocks :
          blk[b].st = "live" /\ blk[b].deleteFun = CustomD /\ blk[b].refs = 2
    /\ \E b \in Blocks :
          blk[b].st = "live" /\ blk[b].deleteFun = DefaultRelease

\* (class_t*)i: the pointer an int stands for; a negative int is sign
\* extended
to_pointer(i) == [hi |-> IF i < 0 THEN 0 - 1 ELSE 0, lo |-> i]

\* C28: h == i is true, and h != i false, exactly when the pointer h manages
\* has the pointer value of i; in particular, where pointers are wider than
\* int, h == 0 is true only of a handle whose data() is NULL.
CompareWithIntIsPointerEquality ==
    [][\A h \in Handles, i \in Ints :
          /\ CmpEq(h, i) => (answer' = (Address(Data(h)) = to_pointer(i)))
          /\ CmpNe(h, i) => (answer' = (Address(Data(h)) # to_pointer(i)))]_vars

\* C21: for every functor valid(), operator bool and the negation of
\* operator! give the same answer, true exactly when m_host and m_call are
\* both not null: FunctorT() is not valid, a functor bound to a NULL host is
\* not valid though its m_call is set; exec() and operator() test nothing:
\* on a functor that is not valid they still go through m_call, and with
\* m_call set the invoker is entered with the null host.
ValidityQueriesAgree ==
    /\ \A x \in Functors :
          LET f == functor[x]
          IN /\ valid(f) = functor_bool(f)
             /\ valid(f) = ~functor_not(f)
             /\ valid(f) <=> (f.m_host \in Targets /\ f.m_call.fn # NullPtr)
             /\ \A args \in ArgsOf(2) :
                   ~valid(f) =>
                      /\ functor_exec(f, args).ub
                      /\ functor_call(f, args).ub
                      /\ f.m_call # NullCall =>
                            functor_exec(f, args).log =
                               <<[f |-> f, args |-> args, depth |-> 0]>>
    /\ ~valid(FunctorT)
    /\ \A m \in Members :
          LET f == functor_from("Target", m, NullPtr)
          IN ~valid(f) /\ f.m_call # NullCall
    /\ lastOp \in {"exec", "call"} =>
          /\ ub <=> (calls = << >> \/ ~valid(calls[1].f))
          /\ \E x \in Functors :
                \/ calls = << >> /\ functor[x].m_call = NullCall
                \/ calls # << >> /\ calls[1].f = functor[x]

\* exec() of a functor bound to a NULL host went into the invoker
ValidityQueriesAgreeWitness ==
    /\ lastOp = "exec" /\ ub
    /\ \E x \in Functors :
          /\ functor[x].m_host = NullPtr /\ functor[x].m_call # NullCall
          /\ Len(calls) = 1 /\ calls[1].f = functor[x]

\* the delegate link() makes
IsLink(d) == d.m_call.class = "EventT" /\ d.m_call.member = "trigger"

\* the events the delegates of e link to
LinksOf(D, e) == {D[e][i].m_host : i \in {j \in DOMAIN D[e] : IsLink(D[e][j])}}

\* the events reached from those of S over at most n more links
RECURSIVE ReachedFrom(_, _, _)
ReachedFrom(D, S, n) ==
    IF n = 0 THEN S
    ELSE ReachedFrom(D, S \cup UNION {LinksOf(D, x) : x \in S}, n - 1)

\* trigger() of e comes to an event that links back to itself
LoopsFrom(D, e) ==
    \E x \in ReachedFrom(D, {e}, Cardinality(Events)) :
        x \in ReachedFrom(D, LinksOf(D, x), Cardinality(Events))

\* the list L with every link replaced by the list of the event it points
\* to, down to n links deep
RECURSIVE Spliced(_, _, _)
Spliced(D, L, n) ==
    IF L = << >> THEN << >>
    ELSE (IF ~IsLink(Head(L)) THEN <<Head(L)>>
          ELSE IF n = 0 THEN << >>
          ELSE Spliced(D, D[Head(L).m_host], n - 1)) \o Spliced(D, Tail(L), n)

\* the member functions of Targets called, in order
MemberCalls(log) ==
    LET Member(c) == ~IsLink(c.f)
        called == SelectSeq(log, Member)
    IN [i \in DOMAIN called |-> called[i].f]

\* C30: after a.link(&b), a.trigger(args) calls the delegates b holds then,
\* in b's order and with args, at the place of the link among a's delegates;
\* trigger() returns when no event reached over links leads back to itself;
\* link() tests nothing, and once a links to itself, or a to b and b to a,
\* a.trigger() calls itself without end.
LinkSplicesAndMayLoop ==
    /\ \A a \in Events, b \in Events :
          LET D == link(m_delegates, a, b)
          IN /\ D[a] = Append(m_delegates[a], functor_from("EventT", "trigger", b))
             /\ (b = a \/ a \in ReachedFrom(m_delegates, {b}, Cardinality(Events)))
                   => LoopsFrom(D, a)
    /\ \A a \in Events, args \in ArgsOf(arity) :
          EvRunning =>
             LET r == trigger(m_delegates, a, args)
             IN /\ r.returns <=> ~LoopsFrom(m_delegates, a)
                /\ \A i \in DOMAIN r.log : r.log[i].args = args
                /\ r.returns =>
                      MemberCalls(r.log) =
                         Spliced(m_delegates, m_delegates[a], Cardinality(Events))
                /\ \A i \in DOMAIN r.log :
                      (IsLink(r.log[i].f) /\ r.returns) =>
                         LET b == r.log[i].f.m_host
                             n == Len(m_delegates[b])
                         IN /\ i + n <= Len(r.log)
                            /\ \A k \in 1 .. n :
                                  /\ r.log[i + k].f = m_delegates[b][k]
                                  /\ r.log[i + k].depth = r.log[i].depth + 1

\* e1 links to e2 and e2 to e1: the trigger() of one of them did not return
LinkSplicesAndMayLoopWitness ==
    /\ lastOp = "overflow"
    /\ \E a \in Events, b \in Events :
          /\ a # b
          /\ b \in LinksOf(m_delegates, a) /\ a \in LinksOf(m_delegates, b)
          /\ Len(calls) >= 2
          /\ calls[Len(calls)].f = functor_from("EventT", "trigger", a)
          /\ calls[Len(calls)].depth = 1

\* C27: trigger() does not look whether the list changed while a delegate
\* ran: when the delegate it called erased its own entry, by unbound() of
\* its host or remove() of itself, the entry at it is gone and the ++it that
\* follows starts from the node of the erased entry, an iterator that is no
\* longer valid.
SelfRemovalInvalidatesIterator ==
    /\ (InDispatch("test") /\ ~at_end(m_delegates, it)) =>
          LET d == m_delegates[it.e][it.it]
              r == call_step(m_delegates, it)
          IN d.m_call.member \in {"unbind_self", "remove_self"} =>
                /\ \A i \in DOMAIN r.D[it.e] : r.D[it.e][i] # d
                /\ Len(r.D[it.e]) < Len(m_delegates[it.e])
                /\ r.it.st = "trigger" /\ r.it.at = "advance" /\ r.it.it = it.it
                /\ r.it.erased
                /\ advance(r.it).ub
    /\ (InDispatch("advance") /\ it.erased) => advance(it).ub
    /\ ub => /\ it.st = "trigger" /\ it.erased
             /\ calls # << >>
             /\ calls[Len(calls)].f.m_call.member \in {"unbind_self", "remove_self"}

\* a delegate called unbound() of its host while other entries were in the
\* list, and trigger() went on from the erased entry
SelfRemovalInvalidatesIteratorWitness ==
    /\ ub /\ it.st = "trigger" /\ it.erased
    /\ calls[Len(calls)].f.m_call.member = "unbind_self"
    /\ m_delegates[it.e] # << >>

\* a delegate that binds itself again is at it or after it
RebindAhead ==
    /\ ~ub /\ it.st = "trigger"
    /\ \E i \in DOMAIN m_delegates[it.e] :
          i >= it.it /\ m_delegates[it.e][i].m_call.member = "rebind"

\* C29: a delegate that a running delegate appends with bind is called
\* before the same trigger() returns, after the entries that were there,
\* because the loop compares with end() anew on every pass: a trigger() that
\* returned has called every entry the list has then, in order; and while a
\* delegate that appends an entry on every call is at or after it, the loop
\* does not come to end(), so that trigger() does not return.
AppendedDelegateIsCalled ==
    /\ [](/\ it.st = "done" =>
               /\ Len(calls) = Len(m_delegates[it.e])
               /\ \A i \in DOMAIN calls :
                     /\ calls[i].f = m_delegates[it.e][i]
                     /\ calls[i].args = it.args
                     /\ calls[i].f.m_call.member # "rebind"
          /\ (InDispatch("test") /\ ~at_end(m_delegates, it) /\ CanAppend) =>
                LET d == m_delegates[it.e][it.it]
                    r == call_step(m_delegates, it)
                    a == advance(r.it)
                IN d.m_call.member \in Binders =>
                      /\ Len(r.D[it.e]) = Len(m_delegates[it.e]) + 1
                      /\ SubSeq(r.D[it.e], 1, Len(m_delegates[it.e])) =
                            m_delegates[it.e]
                      /\ ~r.it.erased /\ ~a.ub
                      /\ a.it.it = it.it + 1
                      /\ ~at_end(r.D, a.it)
          /\ RebindAhead => ~at_end(m_delegates, it))
    /\ [][RebindAhead => (RebindAhead' \/ it'.erased)]_vars

\* trigger() returned after it called bind_m1 and then the m1 that bind_m1
\* had appended
AppendedDelegateIsCalledWitness ==
    /\ it.st = "done" /\ lastOp = "trigger"
    /\ Len(calls) = 2
    /\ calls[1].f.m_call.member = "bind_m1"
    /\ calls[2].f = functor_from("Target", "m1", calls[1].f.m_host)

\* the property is bound: get() has a getter to call
Bound(f) == f.m_get # NullCall /\ f.m_host # NullPtr

\* operation X made the calls of log, called no setter and changed no host
ReadOnly(X, log) ==
    /\ ~X.ub /\ X.calls = log /\ X.m_value = m_value
    /\ \A i \in DOMAIN X.calls : X.calls[i].fn \in Getters \cup ConstGetters

\* C22: x op= v of a ss::PropertyT, for +=, -=, *=, /=, |=, &=, ^=, calls
\* the getter, then the setter once with (the getter's value op v), then
\* the getter again, in that order, and returns what the second call of the
\* getter gave: the value the host has after the set, which is not the
\* value computed when the setter changed it.
CompoundGetsSetsGets ==
    \A x \in Props, op \in ArithOps \cup BitOps, v \in Operands :
        (~ub /\ Bound(prop[x]) /\ ~Undefined(op, v)) =>
            LET f == prop[x]
                t == f.m_host
                computed == apply(op, m_value[t], v)
                X == compound(Hosts, f, op, v)
            IN /\ ~X.ub
               /\ Len(X.calls) = 3
               /\ X.calls[1] = Called(f.m_get.member, t, m_value[t])
               /\ X.calls[2] = Called(f.m_set.member, t, computed)
               /\ X.calls[3] = Called(f.m_get.member, t, X.m_value[t])
               /\ X.value = X.m_value[t]
               /\ X.m_value[t] = stored(f.m_set.member, computed)
               /\ \A u \in Targets \ {t} : X.m_value[u] = m_value[u]
               /\ (f.m_set.member = "setClamped" /\ computed > Limit) =>
                     X.value = Limit /\ X.value # computed

\* a compound assignment through a setter that lowered the value computed
\* returned the value of the host
CompoundGetsSetsGetsWitness ==
    /\ lastOp = "compound" /\ ~ub
    /\ Len(calls) = 3
    /\ calls[2].fn = "setClamped"
    /\ calls[3].value # calls[2].value
    /\ answer = calls[3].value
    /\ answer = m_value[calls[3].host]

\* C23: a property keeps no value: get(), the conversion, operator(), the
\* comparisons and the arithmetic and bitwise operators call the getter
\* once for each operand that is a property and work with what the host
\* holds then, so that a change of the host made without the property shows
\* in the next read; none of them calls a setter or changes a host.
ReadsCallGetterOnce ==
    \A x \in Props \cup ROProps :
        (~ub /\ Bound(prop[x])) =>
            LET f == prop[x]
                t == f.m_host
                once == <<Called(f.m_get.member, t, m_value[t])>>
            IN /\ ReadOnly(get(Hosts, f), once)
               /\ ReadOnly(convert(Hosts, f), once)
               /\ ReadOnly(op_get(Hosts, f), once)
               /\ \A op \in ArithOps \cup BitOps, v \in Operands \ {0} :
                     ReadOnly(binary(Hosts, f, op, v), once)
               /\ \A op \in CompareOps, v \in Operands :
                     ReadOnly(compare(Hosts, f, op, v), once)
               /\ \A op \in UnaryOps : ReadOnly(unary(Hosts, f, op), once)
               /\ get(Hosts, f).value = m_value[t]
               /\ convert(Hosts, f).value = m_value[t]
               /\ op_get(Hosts, f).value = m_value[t]
               /\ \A op \in ArithOps \cup BitOps, v \in Operands \ {0} :
                     binary(Hosts, f, op, v).value = apply(op, m_value[t], v)
               /\ \A op \in CompareOps, v \in Operands :
                     compare(Hosts, f, op, v).value = holds(op, m_value[t], v)
               /\ unary(Hosts, f, "!").value = (m_value[t] = 0)
               /\ unary(Hosts, f, "~").value + m_value[t] = Modulus - 1
               /\ \A y \in Props \cup ROProps, order \in Orders :
                     Bound(prop[y]) =>
                        LET g == prop[y]
                            u == g.m_host
                            other == <<Called(g.m_get.member, u, m_value[u])>>
                            log == IF order = "lr" THEN once \o other
                                   ELSE other \o once
                        IN /\ \A op \in CompareOps :
                                LET X == compare_prop(Hosts, f, op, g, order)
                                IN /\ ReadOnly(X, log)
                                   /\ X.value = holds(op, m_value[t], m_value[u])
                           /\ \A op \in ArithOps \cup BitOps :
                                ~Undefined(op, m_value[u]) =>
                                   LET X == binary_prop(Hosts, f, op, g, order)
                                   IN /\ ReadOnly(X, log)
                                      /\ X.value = apply(op, m_value[t], m_value[u])
               /\ \A v \in Values :
                     LET X1 == get(Hosts, f)
                         X2 == get([X1 EXCEPT !.m_value[t] = v], f)
                     IN /\ X2.value = v
                        /\ X2.calls = once \o <<Called(f.m_get.member, t, v)>>

\* an operator with two properties as operands called the getter of each
\* host once; the second host was only ever written without a property
ReadsCallGetterOnceWitness ==
    /\ lastOp = "binary_prop" /\ ~ub
    /\ Len(calls) = 2
    /\ calls[1].host # calls[2].host
    /\ calls[1].value # calls[2].value
    /\ \E i \in 1 .. 2 : calls[i].host = Owner["r"] /\ calls[i].value = m_value[Owner["r"]]
                         /\ calls[i].value # 0

=============================================================================
